---------------------------- MODULE Spec2Model ----------------------------
(***************************************************************************)
(* Model of the Toast data scripts: the tip/sales/tax aggregator           *)
(* (functions/get_tips/get_tips.py), the order aggregator                  *)
(* (functions/get_orders/get_orders.py), the API client                    *)
(* (server/toast_client.py), the start-up configuration (config.py) and    *)
(* the error reporting.                                                    *)
(*                                                                         *)
(* Money is counted in whole cents.  A date string "YYYY-MM-DD" is the     *)
(* triple <<YYYY, MM, DD>>, the absent date (None) is <<>>.  A dictionary  *)
(* of accumulated amounts is a total function in which 0 stands for "key   *)
(* absent": the code creates a key only when it adds a positive amount.    *)
(***************************************************************************)
EXTENDS Integers, Sequences, FiniteSets, Bags, TLC

VARIABLES
    (* process_tips_data *)
    date_range,        \* the date_range argument
    location_index,    \* the location_index argument
    tpc,               \* position of process_tips_data in its loops
    order,             \* the order of the outer loop
    check,             \* the check of the middle loop
    acc,               \* the accumulators and loop locals of process_tips_data
    absent,            \* history: the same run over the batch without its voided/denied payments
    seen               \* history: what the batch has contained so far

tipsVars == <<date_range, location_index, tpc, order, check, acc, absent, seen>>

VARIABLES
    (* process_tips_data after its loop, and fetch_and_process_time_entries *)
    batch,                 \* the orders_data argument of a whole run
    rpc,                   \* position in the time-entry part
    employee_job_mapping,  \* employee GUID -> GUID of the first job reference
    entries_read,          \* len(time_entries_data) so far
    rows,                  \* the rows of time_entries_by_day, as a bag
    result                 \* the result dictionary

rosterVars == <<batch, rpc, employee_job_mapping, entries_read, rows, result>>

VARIABLES
    (* a run of the script: main, config, ToastAPIClient *)
    pc,                   \* position of the run
    environ,              \* os.environ when the script starts
    main_location_index,  \* location_index of main
    token,                \* self.token is set
    rf,                   \* the running call of _refresh_token; last: its last answer,
                          \*   retried: the permanent errors after which it sent again
    mr,                   \* the running call of _make_request, likewise
    go,                   \* the running call of get_orders
    network,              \* history: a token exchange or a data request has been sent
    reports               \* history: the calls of send_error_to_webhook

runVars == <<pc, environ, main_location_index, token, rf, mr, go, network, reports>>

VARIABLES
    (* process_orders_data *)
    orders_pc,              \* position of process_orders_data
    orders_location_index,  \* its location_index argument
    orders_read,            \* the orders of orders_data read so far
    orders_acc,             \* its accumulators
    orders_result,          \* the dictionary it returns
    orders_hist             \* history: what the batch has contained so far

ordersVars ==
    <<orders_pc, orders_location_index, orders_read, orders_acc, orders_result, orders_hist>>

VARIABLES
    (* an aggregator called twice over one batch *)
    tw    \* the batch, the arguments and the two results

twiceVars == <<tw>>

VARIABLES
    (* the job server (server.py) and its background threads *)
    tasks,       \* task id -> its params, its position and what it has read
    os_environ,  \* os.environ['TOAST_LOCATION_INDEX'] of the server process
    sys_argv     \* sys.argv of the server process

serverVars == <<tasks, os_environ, sys_argv>>

VARIABLES
    (* process_service_charges.attribute_service_charges *)
    asc    \* the order being processed and the position in it

chargesVars == <<asc>>

VARIABLES
    (* ToastAPIClient over time: its token, and the throttle of get_orders *)
    tk,    \* the token, its recorded expiry and the running call of _make_request
    rl     \* the pagination loop of get_orders and the clock

clientVars == <<tk, rl>>

VARIABLES
    (* a task of a job server and the polls of its status *)
    js,    \* the task tables, the worker thread and the polling clients
    (* the end of a run of a script: the delivery of its result *)
    dl     \* the deliveries requested and made, the exit and the task's result

jobVars == <<js, dl>>

moreVars == <<twiceVars, serverVars, chargesVars, clientVars, jobVars>>

vars == <<tipsVars, rosterVars, runVars, ordersVars, moreVars>>

\* what the actions of one part leave alone
nonTipsVars == <<rosterVars, runVars, ordersVars, moreVars>>
nonRosterVars == <<tipsVars, runVars, ordersVars, moreVars>>
nonRunVars == <<tipsVars, rosterVars, ordersVars, moreVars>>
nonOrdersVars == <<tipsVars, rosterVars, runVars, moreVars>>
mainVars == <<tipsVars, rosterVars, runVars, ordersVars, clientVars, jobVars>>
baseVars == <<tipsVars, rosterVars, runVars, ordersVars, twiceVars, serverVars, chargesVars>>

-----------------------------------------------------------------------------
(* Bounds of the model *)

\* orders, checks and payments of one batch, together
MaxRecords == 4
\* time entries of one response
MaxTimeEntries == 2
\* pages of one call of get_orders
MaxPages == 2
\* orders of one batch of process_orders_data
MaxOrders == 2
\* items of one order of attribute_service_charges
MaxItems == 2
\* calls of _make_request on one client
MaxCalls == 2
\* page requests of one call of get_orders under the throttle
MaxThrottledPages == 12
\* status polls of one client
MaxPolls == 2

-----------------------------------------------------------------------------
(* Input domains *)

D1 == <<2025, 5, 1>>
D2 == <<2025, 5, 2>>
NoDate == <<>>
Dates == {D1, D2}

Servers == {"s1", "s2"}
NoServer == "none"

\* A value float() cannot convert (float("abc"), float(None)).
NotANumber == -9999

\* ISO-8601 timestamps: absent, unparsable, or a date with a time of day.
NoTs == [kind |-> "none", date |-> NoDate]
BadTs == [kind |-> "bad", date |-> NoDate]
IsoTs(d) == [kind |-> "iso", date |-> d]
Timestamps == {NoTs, BadTs, IsoTs(D1), IsoTs(D2)}
PaidDates == {NoTs, BadTs, IsoTs(D2)}

\* paidBusinessDate: absent, a YYYYMMDD integer, and one that is not 8 digits long.
BusinessDates == {0, 20250501, 2025051}

AllPayments ==
    [voidInfo : BOOLEAN,
     paymentStatus : {"CAPTURED", "DENIED"},
     paidBusinessDate : BusinessDates,
     paidDate : PaidDates,
     tipAmount : {0, 1, NotANumber},
     amount : {0, 2},
     server : Servers \cup {NoServer}]

\* The combinations of paidBusinessDate and paidDate of the model.
DateFields ==
    {<<20250501, NoTs>>, <<20250501, IsoTs(D2)>>, <<0, IsoTs(D2)>>, <<0, NoTs>>,
     <<0, BadTs>>, <<2025051, IsoTs(D2)>>}

\* The payments of the model: these date fields with the well-formed
\* combinations of tip, amount and server (a payment of the model carries a tip
\* or an amount; the malformed paidBusinessDate and paidDate come with server
\* s1); one payment with a malformed tip; and voided or denied payments that
\* carry a tip, an amount and a server.
Payments ==
    {p \in AllPayments :
        /\ <<p.paidBusinessDate, p.paidDate>> \in DateFields
        /\ p.tipAmount # 0 \/ p.amount # 0
        /\ (p.paidBusinessDate = 2025051 \/ p.paidDate = BadTs
               \/ <<p.paidBusinessDate, p.paidDate>> = <<20250501, IsoTs(D2)>>)
             => p.server = "s1"
        /\ ~(p.voidInfo /\ p.paymentStatus = "DENIED")
        /\ (p.voidInfo \/ p.paymentStatus = "DENIED")
             => (p.paidBusinessDate = 20250501 /\ p.paidDate = NoTs /\ p.tipAmount = 1
                 /\ p.amount = 2 /\ p.server # NoServer)
        /\ p.tipAmount = NotANumber
             => (p.paidBusinessDate = 20250501 /\ p.paidDate = NoTs /\ p.amount = 2
                 /\ p.server = "s1")}

Orders ==
    {[paidDate |-> NoTs, openedDate |-> NoTs],
     [paidDate |-> IsoTs(D2), openedDate |-> IsoTs(D1)],
     [paidDate |-> NoTs, openedDate |-> IsoTs(D1)],
     [paidDate |-> BadTs, openedDate |-> IsoTs(D1)]}

Checks ==
    {[amount |-> 2, totalAmount |-> 2], [amount |-> 2, totalAmount |-> 4],
     [amount |-> NotANumber, totalAmount |-> 2]}

DateRanges ==
    {[start_date |-> D1, end_date |-> D1], [start_date |-> D2, end_date |-> D2],
     [start_date |-> D1, end_date |-> D2]}

-----------------------------------------------------------------------------
(* process_tips_data: date resolution *)

\* str(paidBusinessDate) has 8 characters
HasEightDigits(n) == n >= 10000000 /\ n < 100000000

\* f"{s[:4]}-{s[4:6]}-{s[6:8]}" of the 8-digit string of n
SliceBusinessDate(n) == <<n \div 10000, (n \div 100) % 100, n % 100>>

\* the payment's paidBusinessDate as a date, None when it is absent or not 8 digits long
BusinessDateOf(p) ==
    IF p.paidBusinessDate # 0 /\ HasEightDigits(p.paidBusinessDate)
    THEN SliceBusinessDate(p.paidBusinessDate)
    ELSE NoDate

\* datetime.fromisoformat(ts.replace('Z', '+00:00')).strftime('%Y-%m-%d')
IsoDate(ts) == ts.date

\* the timestamps the date resolution parses, in the order it parses them
ParsedTimestamps(o, p, override) ==
    IF override # NoDate THEN <<>>
    ELSE IF BusinessDateOf(p) # NoDate THEN <<>>
    ELSE IF p.paidDate.kind # "none" THEN <<p.paidDate>>
    ELSE IF o.paidDate.kind # "none" THEN <<o.paidDate>>
    ELSE IF o.openedDate.kind # "none" THEN <<o.openedDate>>
    ELSE <<>>

\* fromisoformat raises ValueError during the date resolution
DateRaises(o, p, override) ==
    \E i \in DOMAIN ParsedTimestamps(o, p, override) :
        ParsedTimestamps(o, p, override)[i].kind = "bad"

\* ResolveDate without the override of a single-day query
ResolveDate_NoOverride(o, p, override) ==
    IF BusinessDateOf(p) # NoDate THEN BusinessDateOf(p)
    ELSE IF p.paidDate.kind # "none" THEN IsoDate(p.paidDate)
    ELSE IF o.paidDate.kind # "none" THEN IsoDate(o.paidDate)
    ELSE IF o.openedDate.kind # "none" THEN IsoDate(o.openedDate)
    ELSE NoDate

\* ResolveDate with the payment's paidDate tried before its paidBusinessDate
ResolveDate_PaidDateFirst(o, p, override) ==
    IF override # NoDate THEN override
    ELSE IF p.paidDate.kind # "none" THEN IsoDate(p.paidDate)
    ELSE IF BusinessDateOf(p) # NoDate THEN BusinessDateOf(p)
    ELSE IF o.paidDate.kind # "none" THEN IsoDate(o.paidDate)
    ELSE IF o.openedDate.kind # "none" THEN IsoDate(o.openedDate)
    ELSE NoDate

\* payment_date of one payment
ResolveDate(o, p, override) ==
    IF override # NoDate THEN override
    ELSE IF BusinessDateOf(p) # NoDate THEN BusinessDateOf(p)
    ELSE IF p.paidDate.kind # "none" THEN IsoDate(p.paidDate)
    ELSE IF o.paidDate.kind # "none" THEN IsoDate(o.paidDate)
    ELSE IF o.openedDate.kind # "none" THEN IsoDate(o.openedDate)
    ELSE NoDate

\* business_date_override: the one day of a single-day query, else None
BusinessDateOverride(dr) ==
    IF dr.start_date = dr.end_date THEN dr.start_date ELSE NoDate

\* the payment is skipped as voided or denied
IsSkipped(p) == p.voidInfo \/ p.paymentStatus = "DENIED"

-----------------------------------------------------------------------------
(* process_tips_data: the accumulation *)

ZeroByDate == [d \in Dates |-> 0]
ZeroByServer == [k \in Dates \X Servers |-> 0]

AccInit ==
    [tips_by_date |-> ZeroByDate,
     sales_by_server_by_date |-> ZeroByServer,
     tips_by_server_by_date |-> ZeroByServer,
     tax_by_server_by_date |-> ZeroByServer,
     check_tip_amount |-> 0,
     check_server_guid |-> NoServer,
     check_primary_date |-> NoDate,
     order_has_tips |-> FALSE,
     total_orders_processed |-> 0,
     total_payments_processed |-> 0,
     orders_with_tips |-> 0,
     raised |-> FALSE]

\* the top of the loop over orders
OrderStep(a) ==
    [a EXCEPT !.total_orders_processed = @ + 1, !.order_has_tips = FALSE]

\* the top of the loop over the checks of an order
CheckStep(a, c) ==
    IF c.amount = NotANumber \/ c.totalAmount = NotANumber
    THEN [a EXCEPT !.raised = TRUE]
    ELSE [a EXCEPT !.check_tip_amount = 0,
                   !.check_server_guid = NoServer,
                   !.check_primary_date = NoDate]

\* AccumulatePayment when the server of the last payment is kept for the check
AccumulatePayment_LastServer(a, p, payment_date) ==
    LET employee_guid == p.server
        a1 == [a EXCEPT
                 !.check_tip_amount = @ + p.tipAmount,
                 !.check_server_guid = IF employee_guid # NoServer THEN employee_guid ELSE @,
                 !.check_primary_date = IF @ = NoDate THEN payment_date ELSE @]
        a2 == IF p.tipAmount > 0
              THEN [a1 EXCEPT
                      !.tips_by_date[payment_date] = @ + p.tipAmount,
                      !.order_has_tips = TRUE,
                      !.tips_by_server_by_date =
                          IF employee_guid # NoServer
                          THEN [@ EXCEPT ![<<payment_date, employee_guid>>] = @ + p.tipAmount]
                          ELSE @]
              ELSE a1
    IN  IF employee_guid # NoServer /\ p.amount > 0
        THEN [a2 EXCEPT !.sales_by_server_by_date[<<payment_date, employee_guid>>] = @ + p.amount]
        ELSE a2

\* AccumulatePayment when only the tips of payments with a server are counted
AccumulatePayment_ServedTipsOnly(a, p, payment_date) ==
    LET employee_guid == p.server
        a1 == [a EXCEPT
                 !.check_tip_amount = @ + p.tipAmount,
                 !.check_server_guid =
                     IF employee_guid # NoServer /\ @ = NoServer THEN employee_guid ELSE @,
                 !.check_primary_date = IF @ = NoDate THEN payment_date ELSE @]
        a2 == IF p.tipAmount > 0 /\ employee_guid # NoServer
              THEN [a1 EXCEPT
                      !.tips_by_date[payment_date] = @ + p.tipAmount,
                      !.order_has_tips = TRUE,
                      !.tips_by_server_by_date[<<payment_date, employee_guid>>] =
                          @ + p.tipAmount]
              ELSE a1
    IN  IF employee_guid # NoServer /\ p.amount > 0
        THEN [a2 EXCEPT !.sales_by_server_by_date[<<payment_date, employee_guid>>] = @ + p.amount]
        ELSE a2

\* AccumulatePayment when the primary date of the check follows its server
AccumulatePayment_ServerDate(a, p, payment_date) ==
    LET employee_guid == p.server
        a1 == [a EXCEPT
                 !.check_tip_amount = @ + p.tipAmount,
                 !.check_server_guid =
                     IF employee_guid # NoServer /\ @ = NoServer THEN employee_guid ELSE @,
                 !.check_primary_date =
                     IF employee_guid # NoServer /\ a.check_server_guid = NoServer
                     THEN payment_date
                     ELSE IF @ = NoDate THEN payment_date ELSE @]
        a2 == IF p.tipAmount > 0
              THEN [a1 EXCEPT
                      !.tips_by_date[payment_date] = @ + p.tipAmount,
                      !.order_has_tips = TRUE,
                      !.tips_by_server_by_date =
                          IF employee_guid # NoServer
                          THEN [@ EXCEPT ![<<payment_date, employee_guid>>] = @ + p.tipAmount]
                          ELSE @]
              ELSE a1
    IN  IF p.amount = NotANumber THEN [a2 EXCEPT !.raised = TRUE]
        ELSE IF employee_guid # NoServer /\ p.amount > 0
        THEN [a2 EXCEPT !.sales_by_server_by_date[<<payment_date, employee_guid>>] = @ + p.amount]
        ELSE a2

\* the part of the payment loop body after the payment's date is known
AccumulatePayment(a, p, payment_date) ==
    LET employee_guid == p.server
        a1 == [a EXCEPT
                 !.check_tip_amount = @ + p.tipAmount,
                 !.check_server_guid =
                     IF employee_guid # NoServer /\ @ = NoServer THEN employee_guid ELSE @,
                 !.check_primary_date = IF @ = NoDate THEN payment_date ELSE @]
        a2 == IF p.tipAmount > 0
              THEN [a1 EXCEPT
                      !.tips_by_date[payment_date] = @ + p.tipAmount,
                      !.order_has_tips = TRUE,
                      !.tips_by_server_by_date =
                          IF employee_guid # NoServer
                          THEN [@ EXCEPT ![<<payment_date, employee_guid>>] = @ + p.tipAmount]
                          ELSE @]
              ELSE a1
    IN  IF p.amount = NotANumber THEN [a2 EXCEPT !.raised = TRUE]
        ELSE IF employee_guid # NoServer /\ p.amount > 0
        THEN [a2 EXCEPT !.sales_by_server_by_date[<<payment_date, employee_guid>>] = @ + p.amount]
        ELSE a2

\* PaymentStep when a payment without a date is an error
PaymentStep_NoDateRaises(a, o, p, override) ==
    LET a1 == [a EXCEPT !.total_payments_processed = @ + 1]
    IN  IF p.voidInfo THEN a1
        ELSE IF p.paymentStatus = "DENIED" THEN a1
        ELSE IF DateRaises(o, p, override) THEN [a1 EXCEPT !.raised = TRUE]
        ELSE IF ResolveDate(o, p, override) = NoDate THEN [a1 EXCEPT !.raised = TRUE]
        ELSE IF p.tipAmount = NotANumber THEN [a1 EXCEPT !.raised = TRUE]
        ELSE AccumulatePayment(a1, p, ResolveDate(o, p, override))

\* PaymentStep without the test of paymentStatus
PaymentStep_DeniedCounted(a, o, p, override) ==
    LET a1 == [a EXCEPT !.total_payments_processed = @ + 1]
    IN  IF p.voidInfo THEN a1
        ELSE IF DateRaises(o, p, override) THEN [a1 EXCEPT !.raised = TRUE]
        ELSE IF ResolveDate(o, p, override) = NoDate THEN a1
        ELSE IF p.tipAmount = NotANumber THEN [a1 EXCEPT !.raised = TRUE]
        ELSE AccumulatePayment(a1, p, ResolveDate(o, p, override))

\* one pass of the loop over the payments of a check
PaymentStep(a, o, p, override) ==
    LET a1 == [a EXCEPT !.total_payments_processed = @ + 1]
    IN  IF p.voidInfo THEN a1
        ELSE IF p.paymentStatus = "DENIED" THEN a1
        ELSE IF DateRaises(o, p, override) THEN [a1 EXCEPT !.raised = TRUE]
        ELSE IF ResolveDate(o, p, override) = NoDate THEN a1
        ELSE IF p.tipAmount = NotANumber THEN [a1 EXCEPT !.raised = TRUE]
        ELSE AccumulatePayment(a1, p, ResolveDate(o, p, override))

\* after the payments of a check: the check's tax
CheckEnd(a, c) ==
    LET check_tax_amount == c.totalAmount - c.amount - a.check_tip_amount
    IN  IF a.check_server_guid # NoServer /\ check_tax_amount > 0 /\ a.check_primary_date # NoDate
        THEN [a EXCEPT !.tax_by_server_by_date[<<a.check_primary_date, a.check_server_guid>>] =
                           @ + check_tax_amount]
        ELSE a

\* after the checks of an order
OrderEnd(a) ==
    IF a.order_has_tips THEN [a EXCEPT !.orders_with_tips = @ + 1] ELSE a

-----------------------------------------------------------------------------
(* The history variable absent: the amounts the same run has accumulated over
   the batch without its voided and denied payments. *)

AmountsOf(a) ==
    [tips_by_date |-> a.tips_by_date,
     sales_by_server_by_date |-> a.sales_by_server_by_date,
     tips_by_server_by_date |-> a.tips_by_server_by_date,
     tax_by_server_by_date |-> a.tax_by_server_by_date,
     check_tip_amount |-> a.check_tip_amount,
     check_server_guid |-> a.check_server_guid,
     check_primary_date |-> a.check_primary_date]

WithAmounts(a, g) ==
    [a EXCEPT !.tips_by_date = g.tips_by_date,
              !.sales_by_server_by_date = g.sales_by_server_by_date,
              !.tips_by_server_by_date = g.tips_by_server_by_date,
              !.tax_by_server_by_date = g.tax_by_server_by_date,
              !.check_tip_amount = g.check_tip_amount,
              !.check_server_guid = g.check_server_guid,
              !.check_primary_date = g.check_primary_date]

-----------------------------------------------------------------------------
(* process_tips_data as a state machine *)

NoOrder == [paidDate |-> NoTs, openedDate |-> NoTs]
NoCheck == [amount |-> 0, totalAmount |-> 0]

\* no payment has been accumulated in this check
NoLast == [paidBusinessDate |-> 0, paidDate |-> NoTs, payment_date |-> NoDate]

\* The history of a run: the checks read and the payments skipped as voided or
\* denied; the payments dropped for want of a date, whether a payment was
\* accumulated after one, and the accumulators of the same run over the batch
\* without the dropped payments; the date fields and the date of the payment
\* accumulated last; of the current check the tips, the servers and the first
\* server of its accumulated payments; whether a check paid through several
\* servers has been taxed; the tax owed to each server; the tips of
\* the accumulated payments without a server and the sales of those with one;
\* of the current check the dates of its first accumulated payment and of its
\* first accumulated payment with a server, and whether a check's tax has been
\* added under another date than the one or the other.
SeenInit ==
    [checks |-> 0, skipped |-> 0,
     dropped |-> 0, after_drop |-> FALSE, without_dropped |-> AccInit,
     last |-> NoLast,
     check_tips |-> 0, check_servers |-> {}, first_server |-> NoServer, split_tax |-> FALSE,
     first_date |-> NoDate, server_date |-> NoDate,
     tax_off_first_date |-> FALSE, tax_off_server_date |-> FALSE,
     expected_tax |-> [s \in Servers |-> 0],
     unserved_tips |-> ZeroByDate, served_sales |-> ZeroByDate]

\* the payment reaches the accumulation: it is not skipped and has a date
IsAccumulated(o, p, override) ==
    /\ ~IsSkipped(p)
    /\ ~DateRaises(o, p, override)
    /\ ResolveDate(o, p, override) # NoDate
    /\ p.tipAmount # NotANumber

\* the payment is dropped for want of a date
IsDropped(o, p, override) ==
    /\ ~IsSkipped(p)
    /\ ~DateRaises(o, p, override)
    /\ ResolveDate(o, p, override) = NoDate

SeenOrder(s) == [s EXCEPT !.without_dropped = OrderStep(@)]

SeenCheck(s, c) ==
    [s EXCEPT !.checks = @ + 1,
              !.check_tips = 0, !.check_servers = {}, !.first_server = NoServer,
              !.first_date = NoDate, !.server_date = NoDate,
              !.without_dropped = CheckStep(@, c)]

SeenPayment(s, o, p, override) ==
    LET d == ResolveDate(o, p, override)
        s1 == [s EXCEPT
                 !.skipped = IF IsSkipped(p) THEN @ + 1 ELSE @,
                 !.dropped = IF IsDropped(o, p, override) THEN @ + 1 ELSE @,
                 !.without_dropped =
                     IF IsDropped(o, p, override) THEN @ ELSE PaymentStep(@, o, p, override)]
    IN  IF ~IsAccumulated(o, p, override) THEN s1
        ELSE [s1 EXCEPT
                !.after_drop = @ \/ s.dropped > 0,
                !.last = [paidBusinessDate |-> p.paidBusinessDate, paidDate |-> p.paidDate,
                          payment_date |-> d],
                !.check_tips = @ + p.tipAmount,
                !.check_servers = IF p.server # NoServer THEN @ \cup {p.server} ELSE @,
                !.first_server = IF @ = NoServer THEN p.server ELSE @,
                !.first_date = IF @ = NoDate THEN d ELSE @,
                !.server_date = IF s.first_server = NoServer /\ p.server # NoServer THEN d ELSE @,
                !.unserved_tips[d] =
                    IF p.server = NoServer /\ p.tipAmount > 0 THEN @ + p.tipAmount ELSE @,
                !.served_sales[d] =
                    IF p.server # NoServer /\ p.amount > 0 THEN @ + p.amount ELSE @]

\* the (date, server) pairs under which the step from a to a2 has added tax
TaxAdded(a, a2) ==
    {k \in Dates \X Servers : a2.tax_by_server_by_date[k] # a.tax_by_server_by_date[k]}

\* the tax of a check has been added, in the step from a to a2
SeenTax(s, a, a2) ==
    [s EXCEPT
       !.tax_off_first_date =
           @ \/ \E k \in TaxAdded(a, a2) : k # <<s.first_date, s.first_server>>,
       !.tax_off_server_date =
           @ \/ \E k \in TaxAdded(a, a2) : k # <<s.server_date, s.first_server>>]

SeenCheckEnd(s, c) ==
    LET tax == c.totalAmount - c.amount - s.check_tips
    IN  [s EXCEPT
           !.last = NoLast,
           !.first_date = NoDate,
           !.server_date = NoDate,
           !.split_tax = @ \/ (tax > 0 /\ Cardinality(s.check_servers) > 1),
           !.check_servers = {},
           !.expected_tax =
               IF tax > 0 /\ s.first_server # NoServer
               THEN [@ EXCEPT ![s.first_server] = @ + tax] ELSE @,
           !.without_dropped = CheckEnd(@, c)]

SeenOrderEnd(s) == [s EXCEPT !.without_dropped = OrderEnd(@)]

\* the orders, checks and payments read so far
Records == acc.total_orders_processed + seen.checks + acc.total_payments_processed

TipsInit ==
    /\ date_range \in DateRanges
    /\ location_index \in {4}
    /\ tpc = "orders"
    /\ order = NoOrder
    /\ check = NoCheck
    /\ acc = AccInit
    /\ absent = AmountsOf(AccInit)
    /\ seen = SeenInit

NoBatch == [order |-> NoOrder, check |-> NoCheck, payments |-> <<>>]
NoResult ==
    [tips_by_date |-> ZeroByDate, sales_by_server |-> {}, total_tips |-> 0,
     declared_cash_tips_by_date |-> ZeroByDate, total_declared_cash_tips |-> 0]

\* the time-entry part has not begun
RosterIdle ==
    /\ batch = NoBatch
    /\ rpc = "idle"
    /\ employee_job_mapping = [e \in Servers |-> ""]
    /\ entries_read = 0
    /\ rows = EmptyBag
    /\ result = NoResult

\* process_tips_data is not running
TipsIdle ==
    /\ date_range = [start_date |-> D1, end_date |-> D1]
    /\ location_index = 4
    /\ tpc = "idle"
    /\ order = NoOrder
    /\ check = NoCheck
    /\ acc = AccInit
    /\ absent = AmountsOf(AccInit)
    /\ seen = SeenInit

\* location_index = None
NoIndex == -1

NoRefresh ==
    [state |-> "idle", ret |-> "none", current_retry |-> 0, sent |-> 0, last |-> "none",
     retried |-> {}]
NoRequest ==
    [state |-> "idle", current_retry |-> 0, sent |-> 0, last |-> "none", retried |-> {},
     all_transient |-> TRUE]
NoGetOrders == [state |-> "idle", param_type |-> "none", page |-> 1, ok |-> 0, failed |-> 0]

\* no script is running
RunIdle ==
    /\ pc = "idle"
    /\ environ = [TOAST_LOCATION_INDEX |-> "4", credentials |-> TRUE]
    /\ main_location_index = NoIndex
    /\ token = FALSE
    /\ rf = NoRefresh
    /\ mr = NoRequest
    /\ go = NoGetOrders
    /\ network = FALSE
    /\ reports = <<>>

\* process_orders_data is not running
OrdersIdle ==
    /\ orders_pc = "idle"
    /\ orders_location_index = 4
    /\ orders_read = 0
    /\ orders_acc = <<>>
    /\ orders_result = <<>>
    /\ orders_hist = <<>>

\* no aggregator is being called twice
TwiceIdle == tw = [pc |-> "idle"]

\* the job server has no task
ServerIdle ==
    /\ tasks = <<>>
    /\ os_environ = ""
    /\ sys_argv = <<>>

\* attribute_service_charges is not running
ChargesIdle == asc = [pc |-> "idle"]

BaseIdle ==
    /\ TipsIdle /\ RosterIdle /\ RunIdle /\ OrdersIdle /\ TwiceIdle /\ ServerIdle /\ ChargesIdle

ClientIdle == tk = [pc |-> "idle"] /\ rl = [pc |-> "idle"]

JobsIdle == js = [pc |-> "idle"] /\ dl = [pc |-> "idle"]

MoreIdle == TwiceIdle /\ ServerIdle /\ ChargesIdle /\ ClientIdle /\ JobsIdle

\* for order in orders_data
StartOrder ==
    /\ tpc = "orders"
    /\ Records < MaxRecords
    /\ \E o \in Orders :
        /\ order' = o
        /\ acc' = OrderStep(acc)
        /\ absent' = absent
    /\ seen' = SeenOrder(seen)
    /\ tpc' = "checks"
    /\ UNCHANGED <<date_range, location_index, check>>
    /\ UNCHANGED nonTipsVars

\* for check in order.get('checks', [])
StartCheck ==
    /\ tpc = "checks"
    /\ Records < MaxRecords
    /\ \E c \in Checks :
        /\ check' = c
        /\ acc' = CheckStep(acc, c)
        /\ absent' = AmountsOf(CheckStep(WithAmounts(acc, absent), c))
        /\ tpc' = IF CheckStep(acc, c).raised THEN "raised" ELSE "payments"
        /\ seen' = SeenCheck(seen, c)
    /\ UNCHANGED <<date_range, location_index, order>>
    /\ UNCHANGED nonTipsVars

\* for payment in check.get('payments', [])
ProcessPayment ==
    /\ tpc = "payments"
    /\ Records < MaxRecords
    /\ \E p \in Payments :
        LET override == BusinessDateOverride(date_range) IN
        /\ acc' = PaymentStep(acc, order, p, override)
        /\ absent' = IF IsSkipped(p) THEN absent
                      ELSE AmountsOf(PaymentStep(WithAmounts(acc, absent), order, p, override))
        /\ tpc' = IF PaymentStep(acc, order, p, override).raised THEN "raised" ELSE "payments"
        /\ seen' = SeenPayment(seen, order, p, override)
    /\ UNCHANGED <<date_range, location_index, order, check>>
    /\ UNCHANGED nonTipsVars

\* the end of a check's payment list
EndCheck ==
    /\ tpc = "payments"
    /\ acc' = CheckEnd(acc, check)
    /\ absent' = AmountsOf(CheckEnd(WithAmounts(acc, absent), check))
    /\ seen' = SeenCheckEnd(SeenTax(seen, acc, CheckEnd(acc, check)), check)
    /\ tpc' = "checks"
    /\ UNCHANGED <<date_range, location_index, order, check>>
    /\ UNCHANGED nonTipsVars

\* the end of an order's check list
EndOrder ==
    /\ tpc = "checks"
    /\ acc' = OrderEnd(acc)
    /\ absent' = absent
    /\ seen' = SeenOrderEnd(seen)
    /\ tpc' = "orders"
    /\ UNCHANGED <<date_range, location_index, order, check>>
    /\ UNCHANGED nonTipsVars

\* the end of orders_data: the loop is left and the result is built
EndOrders ==
    /\ tpc = "orders"
    /\ tpc' = "summary"
    /\ UNCHANGED <<date_range, location_index, order, check, acc, absent, seen>>
    /\ UNCHANGED nonTipsVars

\* main: an exception of process_tips_data is reported and the script exits with 1
MainExcept ==
    /\ tpc = "raised"
    /\ tpc' = "exit1"
    /\ UNCHANGED <<date_range, location_index, order, check, acc, absent, seen>>
    /\ UNCHANGED nonTipsVars

TipsNext ==
    \/ StartOrder
    \/ StartCheck
    \/ ProcessPayment
    \/ EndCheck
    \/ EndOrder
    \/ EndOrders
    \/ MainExcept

\* The loop of process_tips_data over a batch that is read record by record.
Init == TipsInit /\ RosterIdle /\ RunIdle /\ OrdersIdle /\ MoreIdle
Next == TipsNext
Spec == Init /\ [][Next]_vars

-----------------------------------------------------------------------------
(* Claims about the loop of process_tips_data *)

FourMaps(a) ==
    <<a.tips_by_date, a.tips_by_server_by_date, a.sales_by_server_by_date,
      a.tax_by_server_by_date>>

\* C1: a voided or denied payment contributes no amount: tips_by_date,
\* tips_by_server_by_date, sales_by_server_by_date and tax_by_server_by_date are
\* what the run accumulates over the batch without those payments.
C1_SkippedPaymentsContributeNothing == FourMaps(acc) = FourMaps(absent)

\* a run has finished over a batch with a voided or denied payment that carries
\* a tip, an amount and a server, next to payments that were accumulated
C1_Witness ==
    /\ tpc = "summary"
    /\ seen.skipped > 0
    /\ \E d \in Dates : acc.tips_by_date[d] > 0
    /\ \E k \in Dates \X Servers : acc.tax_by_server_by_date[k] > 0

\* C5: a malformed payment or check record is skipped and the run does not end
\* in an error.
C5_MalformedRecordNeverAborts == tpc \notin {"raised", "exit1"}

-----------------------------------------------------------------------------
(* fetch_and_process_time_entries: tip-pool eligibility of a position *)

server_job_guid == "9d5d64b3-8d59-4aae-b340-02dd970b54dd"
cashier_position_guid == "6c0920e7-c285-4fbd-b7df-5cb910737ff1"
loj_expo_position_guid == "6339f37d-0039-433f-aee7-6ee33d2cd40a"
bar_cashier_position_guid == "021bdbad-b7ff-43da-a9a1-6982d6025922"
host_cashier_position_guid == "ce03fbb1-0bc0-4edc-9ade-b330fe9bdc01"
server_position_guid == "38273a48-9624-4db3-b2cb-12c6d157cdad"
foh_supervisor_position_guid == "a7da3f8f-2e11-4415-88d6-0effec774f01"
loc4_bar_cashier_guid == "91391768-a7e3-489a-8c29-ff6ecf5b227b"
loc4_bartender_guid == "91f56a2a-093c-47e3-a523-69473025ff2f"
loc4_busser_guid == "06a8860f-f234-4502-a7b2-0fe3e95eeaa7"
loc4_host_cashier_guid == "fb1927e1-d607-42a9-8d57-8ef0170c8926"
loc4_runner_guid == "4ff5fe50-3669-4d95-9873-16a291e8de93"
loc4_server_guid == "d937c0a8-363c-467a-bdcb-af34ef5c682f"
loc5_server_guid == "9a8684be-b5d1-4c2c-a816-68dfaf6f16ce"
loc5_busser_guid == "d6d40620-6525-47dc-8f15-4723c2939b47"
loc5_host_guid == "1e63bd70-f6c6-474a-b7ab-ceb38c48862d"
loc5_runner_guid == "98957e46-284a-4d07-911e-9a6118659845"
loc5_bartender_guid == "8df2204c-47f1-4057-9b9e-c2de19f43677"
loc5_bar_cashier_guid == "3cfe523c-030f-41d4-b148-6590f015ff8f"
loc5_host_cashier_guid == "fe2f5f4c-0a0e-40ac-9aef-871f85941918"
loc5_bar_prep_guid == "42555df0-5a23-4279-b6e9-ca9f9b97bcff"
loc5_barback_guid == "15f9bfee-9cc1-44ee-8d26-2506299f2b33"

\* include_position, with every location's list consulted
IncludePosition_AnyLocation(position_guid, loc) ==
    \/ position_guid = server_job_guid
    \/ position_guid \in {cashier_position_guid, loj_expo_position_guid}
    \/ position_guid \in {bar_cashier_position_guid, host_cashier_position_guid,
                          server_position_guid, foh_supervisor_position_guid}
    \/ position_guid \in {loc4_bar_cashier_guid, loc4_bartender_guid, loc4_busser_guid,
                          loc4_host_cashier_guid, loc4_runner_guid, loc4_server_guid}
    \/ position_guid \in {loc5_server_guid, loc5_busser_guid, loc5_host_guid,
                          loc5_runner_guid, loc5_bartender_guid, loc5_bar_cashier_guid,
                          loc5_host_cashier_guid, loc5_bar_prep_guid, loc5_barback_guid}

\* include_position
IncludePosition(position_guid, loc) ==
    IF position_guid = server_job_guid THEN TRUE
    ELSE IF loc = 2 /\ position_guid \in {cashier_position_guid, loj_expo_position_guid}
    THEN TRUE
    ELSE IF loc = 3 /\ position_guid \in {bar_cashier_position_guid, host_cashier_position_guid,
                                          server_position_guid, foh_supervisor_position_guid}
    THEN TRUE
    ELSE IF loc = 4 /\ position_guid \in {loc4_bar_cashier_guid, loc4_bartender_guid,
                                          loc4_busser_guid, loc4_host_cashier_guid,
                                          loc4_runner_guid, loc4_server_guid}
    THEN TRUE
    ELSE IF loc = 5 /\ position_guid \in {loc5_server_guid, loc5_busser_guid, loc5_host_guid,
                                          loc5_runner_guid, loc5_bartender_guid,
                                          loc5_bar_cashier_guid, loc5_host_cashier_guid,
                                          loc5_bar_prep_guid, loc5_barback_guid}
    THEN TRUE
    ELSE FALSE

-----------------------------------------------------------------------------
(* fetch_and_process_time_entries: one time entry *)

\* a position GUID on no list
other_position_guid == "00000000-dish-washer"

\* comparison of two date strings "YYYY-MM-DD"
DateLess(a, b) ==
    \/ a[1] < b[1]
    \/ a[1] = b[1] /\ a[2] < b[2]
    \/ a[1] = b[1] /\ a[2] = b[2] /\ a[3] < b[3]

AllTimeEntries ==
    [businessDate : {0, 20250501, 20250502, 2025051},
     employeeReference : Servers \cup {NoServer},
     jobReference : {"", server_job_guid, cashier_position_guid, loc4_busser_guid,
                     other_position_guid},
     declaredCashTips : {0, 3, NotANumber}]

\* The time entries of the model: every position and declared amount for "s1"
\* on both days, a server "s2", and one entry each without a business date, with
\* a malformed one, without an employee and with an unparsable amount.
TimeEntries ==
    {e \in AllTimeEntries :
        /\ e.businessDate \in {0, 2025051}
             => (e.employeeReference = "s1" /\ e.jobReference = server_job_guid
                 /\ e.declaredCashTips = 3)
        /\ e.employeeReference = NoServer
             => (e.businessDate = 20250501 /\ e.jobReference = server_job_guid
                 /\ e.declaredCashTips = 3)
        /\ e.employeeReference = "s2" => e.jobReference = server_job_guid
        /\ e.declaredCashTips = NotANumber
             => (e.businessDate = 20250501 /\ e.employeeReference = "s1"
                 /\ e.jobReference = server_job_guid)}

\* the entry is left out of the roster: no or malformed business date, a date
\* outside the requested range, or no employee
EntrySkipped(e, dr) ==
    \/ e.businessDate = 0
    \/ ~HasEightDigits(e.businessDate)
    \/ DateLess(SliceBusinessDate(e.businessDate), dr.start_date)
    \/ DateLess(dr.end_date, SliceBusinessDate(e.businessDate))
    \/ e.employeeReference = NoServer

\* float(declared_cash_tips_raw) raises inside the loop
EntryRaises(e, dr) == ~EntrySkipped(e, dr) /\ e.declaredCashTips = NotANumber

\* position_guid of the entry: its own job reference, else the employee's first one
PositionOf(e, jobs) ==
    IF e.jobReference # "" THEN e.jobReference ELSE jobs[e.employeeReference]

\* time_entry_record
RosterRow(e, a, jobs, loc) ==
    LET formatted_date == SliceBusinessDate(e.businessDate)
        employee_guid == e.employeeReference
        position_guid == PositionOf(e, jobs)
        include_position == IncludePosition(position_guid, loc)
        k == <<formatted_date, employee_guid>>
    IN  [date |-> formatted_date,
         employeeGuid |-> employee_guid,
         positionGuid |-> position_guid,
         sales |-> IF include_position THEN a.sales_by_server_by_date[k] ELSE 0,
         nonCashTips |-> IF include_position THEN a.tips_by_server_by_date[k] ELSE 0,
         taxAmount |-> IF include_position THEN a.tax_by_server_by_date[k] ELSE 0,
         cashTipsDeclared |-> e.declaredCashTips]

-----------------------------------------------------------------------------
(* process_tips_data: a whole run of the loop, and the result dictionary *)

RECURSIVE PaymentsLoop(_, _, _, _)
\* for payment in check.get('payments', []), left at the first exception
PaymentsLoop(a, o, ps, override) ==
    IF ps = <<>> \/ a.raised THEN a
    ELSE PaymentsLoop(PaymentStep(a, o, Head(ps), override), o, Tail(ps), override)

\* the loop over a batch of one order with one check
OrdersLoop(b, override) ==
    LET a1 == CheckStep(OrderStep(AccInit), b.check)
        a2 == IF a1.raised THEN a1 ELSE PaymentsLoop(a1, b.order, b.payments, override)
    IN  IF a2.raised THEN a2 ELSE OrderEnd(CheckEnd(a2, b.check))

RECURSIVE SumOver(_, _)
\* sum(f.values()) over the keys S
SumOver(f, S) ==
    IF S = {} THEN 0
    ELSE LET x == CHOOSE y \in S : TRUE IN f[x] + SumOver(f, S \ {x})

\* server_summary: one record for each date and server with sales or tips
ServerSummary(a) ==
    {[date |-> k[1], server_guid |-> k[2],
      total_sales |-> a.sales_by_server_by_date[k],
      total_tips |-> a.tips_by_server_by_date[k]] :
        k \in {j \in Dates \X Servers :
                  a.sales_by_server_by_date[j] > 0 \/ a.tips_by_server_by_date[j] > 0}}

\* result, before the time entries are added
BuildResult(a) ==
    [tips_by_date |-> a.tips_by_date,
     sales_by_server |-> ServerSummary(a),
     total_tips |-> SumOver(a.tips_by_date, Dates),
     declared_cash_tips_by_date |-> ZeroByDate,
     total_declared_cash_tips |-> 0]

\* the body of the loop over the roster rows that adds the declared cash tips
FoldRow(res, r) ==
    IF r.cashTipsDeclared > 0
    THEN [res EXCEPT
            !.declared_cash_tips_by_date[r.date] = @ + r.cashTipsDeclared,
            !.total_declared_cash_tips = @ + r.cashTipsDeclared,
            !.tips_by_date[r.date] = @ + r.cashTipsDeclared,
            !.total_tips = @ + r.cashTipsDeclared,
            !.sales_by_server =
                {IF rec.date = r.date /\ rec.server_guid = r.employeeGuid
                 THEN [rec EXCEPT !.total_tips = @ + r.cashTipsDeclared]
                 ELSE rec : rec \in @}]
    ELSE res

RECURSIVE FoldRows(_, _)
\* for date, entries in timeEntriesByDay.items(): for entry in entries
FoldRows(res, bag) ==
    IF bag = EmptyBag THEN res
    ELSE LET r == CHOOSE x \in BagToSet(bag) : TRUE
         IN  FoldRows(FoldRow(res, r), bag (-) SetToBag({r}))

-----------------------------------------------------------------------------
(* process_tips_data after its loop, as a state machine *)

PaymentA ==
    [voidInfo |-> FALSE, paymentStatus |-> "CAPTURED", paidBusinessDate |-> 20250501,
     paidDate |-> IsoTs(D2), tipAmount |-> 1, amount |-> 2, server |-> "s1"]
PaymentB ==
    [voidInfo |-> FALSE, paymentStatus |-> "CAPTURED", paidBusinessDate |-> 0,
     paidDate |-> IsoTs(D2), tipAmount |-> 1, amount |-> 2, server |-> "s2"]
PaymentC ==
    [voidInfo |-> FALSE, paymentStatus |-> "CAPTURED", paidBusinessDate |-> 0,
     paidDate |-> NoTs, tipAmount |-> 1, amount |-> 0, server |-> NoServer]

\* The batches of a whole run: one order with one check and these payments.
Batches ==
    {[order |-> [paidDate |-> NoTs, openedDate |-> IsoTs(D1)],
      check |-> [amount |-> 2, totalAmount |-> 6],
      payments |-> ps] :
        ps \in {<<>>, <<PaymentA>>, <<PaymentB>>, <<PaymentA, PaymentB>>,
                <<PaymentC, PaymentB>>}}

\* what the employee listing gives as first job reference
EmployeeJobs ==
    {[e \in Servers |-> IF e = "s1" THEN j ELSE ""] :
        j \in {server_job_guid, other_position_guid}}

RosterInit ==
    /\ date_range \in DateRanges
    /\ location_index \in 1..5
    /\ batch \in Batches
    /\ order = batch.order
    /\ check = batch.check
    /\ acc = OrdersLoop(batch, BusinessDateOverride(date_range))
    /\ absent = AmountsOf(acc)
    /\ seen = [SeenInit EXCEPT !.checks = 1, !.without_dropped = acc]
    /\ tpc = "summary"
    /\ rpc = "start"
    /\ employee_job_mapping = [e \in Servers |-> ""]
    /\ entries_read = 0
    /\ rows = EmptyBag
    /\ result = BuildResult(acc)
    /\ RunIdle
    /\ OrdersIdle
    /\ MoreIdle

\* client.get_employee(None): the job references, or {} when the request fails
FetchEmployees ==
    /\ rpc = "start"
    /\ \/ employee_job_mapping' \in EmployeeJobs
       \/ employee_job_mapping' = [e \in Servers |-> ""]
    /\ rpc' = "request"
    /\ UNCHANGED <<batch, entries_read, rows, result>>
    /\ UNCHANGED nonRosterVars

\* client.get_time_entries(...): a response, or an exception and the empty roster
FetchTimeEntries ==
    /\ rpc = "request"
    /\ rpc' \in {"entries", "fold"}
    /\ UNCHANGED <<batch, employee_job_mapping, entries_read, rows, result>>
    /\ UNCHANGED nonRosterVars

\* for entry in time_entries_data
TimeEntryStep ==
    /\ rpc = "entries"
    /\ entries_read < MaxTimeEntries
    /\ \E e \in TimeEntries :
        IF EntryRaises(e, date_range)
        THEN /\ rows' = EmptyBag
             /\ rpc' = "fold"
        ELSE /\ rows' = IF EntrySkipped(e, date_range) THEN rows
                        ELSE rows (+) SetToBag({RosterRow(e, acc, employee_job_mapping,
                                                          location_index)})
             /\ rpc' = "entries"
    /\ entries_read' = entries_read + 1
    /\ UNCHANGED <<batch, employee_job_mapping, result>>
    /\ UNCHANGED nonRosterVars

\* the end of time_entries_data: the roster is returned
EndTimeEntries ==
    /\ rpc = "entries"
    /\ rpc' = "fold"
    /\ UNCHANGED <<batch, employee_job_mapping, entries_read, rows, result>>
    /\ UNCHANGED nonRosterVars

\* the declared cash tips are added to the result, which is returned
FoldDeclaredCashTips ==
    /\ rpc = "fold"
    /\ result' = FoldRows(result, rows)
    /\ rpc' = "done"
    /\ UNCHANGED <<batch, employee_job_mapping, entries_read, rows>>
    /\ UNCHANGED nonRosterVars

RosterNext ==
    \/ FetchEmployees
    \/ FetchTimeEntries
    \/ TimeEntryStep
    \/ EndTimeEntries
    \/ FoldDeclaredCashTips

\* A whole run of process_tips_data over a batch, from the end of its loop on.
SpecRoster == RosterInit /\ [][RosterNext]_vars

-----------------------------------------------------------------------------
(* Claims about a whole run of process_tips_data *)

SingleDay == date_range.start_date = date_range.end_date

AllowList(loc) ==
    CASE loc = 2 -> {cashier_position_guid, loj_expo_position_guid}
      [] loc = 3 -> {bar_cashier_position_guid, host_cashier_position_guid,
                     server_position_guid, foh_supervisor_position_guid}
      [] loc = 4 -> {loc4_bar_cashier_guid, loc4_bartender_guid, loc4_busser_guid,
                     loc4_host_cashier_guid, loc4_runner_guid, loc4_server_guid}
      [] loc = 5 -> {loc5_server_guid, loc5_busser_guid, loc5_host_guid, loc5_runner_guid,
                     loc5_bartender_guid, loc5_bar_cashier_guid, loc5_host_cashier_guid,
                     loc5_bar_prep_guid, loc5_barback_guid}
      [] OTHER -> {}

\* C3: a roster row carries sales, nonCashTips or taxAmount only if its position
\* is the universal server job or on the allow-list of the run's location.
C3_OnlyEligiblePositionsCarryAmounts ==
    \A r \in BagToSet(rows) :
        (r.sales # 0 \/ r.nonCashTips # 0 \/ r.taxAmount # 0)
            => (r.positionGuid = server_job_guid
                \/ r.positionGuid \in AllowList(location_index))

\* the roster holds a row with amounts, and a row without any for a position of
\* another location's list whose employee has sales and tips on that date
C3_Witness ==
    /\ \E r \in BagToSet(rows) : r.sales > 0 /\ r.nonCashTips > 0 /\ r.taxAmount > 0
    /\ \E r \in BagToSet(rows) :
          /\ r.positionGuid \notin AllowList(location_index)
          /\ \E loc \in 1..5 : r.positionGuid \in AllowList(loc)
          /\ acc.sales_by_server_by_date[<<r.date, r.employeeGuid>>] > 0
          /\ acc.tips_by_server_by_date[<<r.date, r.employeeGuid>>] > 0
          /\ acc.tax_by_server_by_date[<<r.date, r.employeeGuid>>] > 0
          /\ r.sales = 0 /\ r.nonCashTips = 0 /\ r.taxAmount = 0

\* the declared cash tips of the roster rows with cashTipsDeclared > 0 that S holds
DeclaredIn(S) ==
    LET T == {r \in S : r.cashTipsDeclared > 0}
    IN  SumOver([r \in T |-> CopiesIn(r, rows) * r.cashTipsDeclared], T)

\* the per-date part of C14
C14_PerDate ==
    rpc = "done" =>
        /\ \A d \in Dates :
              result.tips_by_date[d]
                  = acc.tips_by_date[d] + DeclaredIn({r \in BagToSet(rows) : r.date = d})
        /\ result.total_tips = SumOver(acc.tips_by_date, Dates) + DeclaredIn(BagToSet(rows))

\* C14: in the returned result the declared cash tips of the roster rows are
\* added to tips_by_date of the row's date and to summary.total_tips, and for
\* every date and employee with declared cash tips there is a sales_by_server
\* record whose total_tips is the payment tips plus the declared cash tips.
C14_DeclaredCashTipsFolded ==
    /\ C14_PerDate
    /\ rpc = "done" =>
          \A k \in Dates \X Servers :
              LET declared ==
                      DeclaredIn({r \in BagToSet(rows) :
                                     r.date = k[1] /\ r.employeeGuid = k[2]})
              IN  declared > 0 =>
                      \E rec \in result.sales_by_server :
                          /\ rec.date = k[1]
                          /\ rec.server_guid = k[2]
                          /\ rec.total_tips = acc.tips_by_server_by_date[k] + declared

\* the sum of a field over the roster rows of a date and an employee
RosterSum(field, k) ==
    LET T == {r \in BagToSet(rows) : r.date = k[1] /\ r.employeeGuid = k[2]}
    IN  SumOver([r \in T |-> CopiesIn(r, rows) * r[field]], T)

\* C28: for every date and employee the roster rows together carry at most
\* the sales, the tips and the tax that the aggregator has for that employee on
\* that date.
C28_RosterWithinAggregator ==
    \A k \in Dates \X Servers :
        /\ RosterSum("sales", k) <= acc.sales_by_server_by_date[k]
        /\ RosterSum("nonCashTips", k) <= acc.tips_by_server_by_date[k]
        /\ RosterSum("taxAmount", k) <= acc.tax_by_server_by_date[k]

\* C28 for a single row: it carries the aggregator's value or nothing.
C28_EachRowWithinAggregator ==
    \A r \in BagToSet(rows) :
        LET k == <<r.date, r.employeeGuid>>
        IN  /\ r.sales \in {0, acc.sales_by_server_by_date[k]}
            /\ r.nonCashTips \in {0, acc.tips_by_server_by_date[k]}
            /\ r.taxAmount \in {0, acc.tax_by_server_by_date[k]}

-----------------------------------------------------------------------------
(* Claims about the loop of process_tips_data: dates, dropped payments, tax
   and payments without a server *)

\* the run has no single-day override and the last payment was accumulated
ResolvedWithoutOverride ==
    /\ BusinessDateOverride(date_range) = NoDate
    /\ seen.last # NoLast

\* the date of the first of the four candidates for which present(...) holds
FirstCandidate(o, last, business_date_present) ==
    IF business_date_present THEN SliceBusinessDate(last.paidBusinessDate)
    ELSE IF last.paidDate.kind # "none" THEN last.paidDate.date
    ELSE IF o.paidDate.kind # "none" THEN o.paidDate.date
    ELSE o.openedDate.date

\* C15 as stated: without an override the date of an accumulated payment is
\* that of the first candidate that is present: paidBusinessDate, the payment's
\* paidDate, the order's paidDate, the order's openedDate.
C15_FirstPresentCandidate ==
    ResolvedWithoutOverride =>
        seen.last.payment_date
            = FirstCandidate(order, seen.last, seen.last.paidBusinessDate # 0)

\* C15, amended: the same, where a paidBusinessDate counts as present only if
\* it is written with eight digits; one of another length is passed over.
C15_FirstWellFormedCandidate ==
    ResolvedWithoutOverride =>
        seen.last.payment_date
            = FirstCandidate(order, seen.last,
                             seen.last.paidBusinessDate # 0
                                 /\ HasEightDigits(seen.last.paidBusinessDate))

\* a payment without paidBusinessDate and paidDate, in an order without
\* paidDate, was accumulated under the order's openedDate
C15_Witness ==
    /\ ResolvedWithoutOverride
    /\ tpc = "payments"
    /\ seen.last.paidBusinessDate = 0
    /\ seen.last.paidDate = NoTs
    /\ order.paidDate = NoTs
    /\ order.openedDate = IsoTs(D1)
    /\ seen.last.payment_date = D1
    /\ acc.tips_by_date[D1] > 0

\* the accumulators apart from the count of payments read
ApartFromPaymentCount(a) == [a EXCEPT !.total_payments_processed = 0]

\* C16: a payment for which no date candidate resolves is dropped: the run does
\* not end in an error because of it, and the tips, sales and tax accumulated,
\* then and afterwards, are those of the same run over the batch without it.
C16_DroppedPaymentCountsAsAbsent ==
    /\ ApartFromPaymentCount(acc) = ApartFromPaymentCount(seen.without_dropped)
    /\ acc.total_payments_processed
          = seen.without_dropped.total_payments_processed + seen.dropped

\* a run has finished in which a payment was dropped and a later payment was
\* accumulated with a tip and a tax
C16_Witness ==
    /\ tpc = "summary"
    /\ seen.dropped > 0
    /\ seen.after_drop
    /\ \E d \in Dates : acc.tips_by_date[d] > 0
    /\ \E k \in Dates \X Servers : acc.tax_by_server_by_date[k] > 0

\* the tax attributed to a server, over all dates
TaxOfServer(s) == SumOver([d \in Dates |-> acc.tax_by_server_by_date[<<d, s>>]], Dates)

\* C17: the tax of a check is totalAmount - amount - the tips of its accumulated
\* payments; when it is positive, all of it goes to the server of the first
\* accumulated payment that has one and nothing to any other server; when it
\* is not positive or no payment has a server, nothing is added.
C17_TaxToFirstServerOnly ==
    \A s \in Servers : TaxOfServer(s) = seen.expected_tax[s]

\* a check paid through two servers has been closed: its tax is with the first
\* of them and the other has none
C17_Witness ==
    /\ tpc = "checks"
    /\ seen.checks = 1
    /\ seen.split_tax
    /\ seen.first_server = "s2"
    /\ TaxOfServer("s2") > 0
    /\ TaxOfServer("s1") = 0

\* the tips attributed to servers on a date
ServerTipsOn(d) == SumOver([s \in Servers |-> acc.tips_by_server_by_date[<<d, s>>]], Servers)

\* the sales attributed to servers on a date
ServerSalesOn(d) == SumOver([s \in Servers |-> acc.sales_by_server_by_date[<<d, s>>]], Servers)

\* C18: on every date tips_by_date is the tips attributed to servers plus the
\* tips of the accumulated payments without a server, which are attributed to
\* no server and add no sales: the servers' tips never exceed tips_by_date and
\* equal it exactly when every tipped payment of the date has a server.
C18_UnservedTipsOnlyByDate ==
    \A d \in Dates :
        /\ acc.tips_by_date[d] = ServerTipsOn(d) + seen.unserved_tips[d]
        /\ ServerTipsOn(d) <= acc.tips_by_date[d]
        /\ ServerTipsOn(d) = acc.tips_by_date[d] <=> seen.unserved_tips[d] = 0
        /\ ServerSalesOn(d) = seen.served_sales[d]

\* a run has finished with a date on which a payment without a server and a
\* payment with one were tipped
C18_Witness ==
    /\ tpc = "summary"
    /\ \E d \in Dates :
          /\ seen.unserved_tips[d] > 0
          /\ ServerTipsOn(d) > 0
          /\ ServerTipsOn(d) < acc.tips_by_date[d]

\* C27: the date under which the tax of a check is added is the date of the
\* payment whose server receives the tax.
C27_TaxDateFromServersPayment == ~seen.tax_off_server_date

\* C27 as the loop has it: the tax of a check is added under the date of the
\* first accumulated payment of the check and the server of its first
\* accumulated payment with a server.
C27_TaxDateFromFirstPayment == ~seen.tax_off_first_date

\* a run over a two-day range has closed one check whose first accumulated
\* payment has no server and whose next one, of another date, has: the tax is
\* under the date of the former and the server of the latter
C27_Witness ==
    /\ tpc = "checks"
    /\ seen.checks = 1
    /\ seen.tax_off_server_date
    /\ \E k \in Dates \X Servers : acc.tax_by_server_by_date[k] > 0
    /\ \A k \in Dates \X Servers : acc.sales_by_server_by_date[k] > 0 => acc.tax_by_server_by_date[k] = 0
    /\ \E k \in Dates \X Servers : acc.sales_by_server_by_date[k] > 0

-----------------------------------------------------------------------------
(* A run of the script: start-up (main, config.py, ToastAPIClient.__init__),
   the API client (_refresh_token, _ensure_valid_token, _make_request,
   get_orders) and the error report. *)

MAX_RETRIES == 5

\* TOAST_LOCATION_INDEX is not in the environment
Unset == "<unset>"

IndexTexts == {Unset, "", "abc", "0", "3", "7"}

\* The environments of the model; credentials: TOAST_CLIENT_ID and
\* TOAST_CLIENT_SECRET are both set.
Environs == [TOAST_LOCATION_INDEX : IndexTexts, credentials : BOOLEAN]

\* int(text)
IntOf(text) ==
    CASE text = "0" -> 0
      [] text = "1" -> 1
      [] text = "2" -> 2
      [] text = "3" -> 3
      [] text = "4" -> 4
      [] text = "7" -> 7
      [] OTHER -> NotANumber

\* str(n)
StrOf(n) ==
    CASE n = 0 -> "0"
      [] n = 1 -> "1"
      [] n = 2 -> "2"
      [] n = 3 -> "3"
      [] n = 4 -> "4"
      [] n = 7 -> "7"
      [] OTHER -> Unset

LOCATION_GUID_MAP ==
    [i \in 1..5 |->
        CASE i = 1 -> "8a3b1856-f4ed-4f13-8f64-6349fbffe1f1"
          [] i = 2 -> "424bca99-0858-4c55-9fe6-ba3936f2fe1b"
          [] i = 3 -> "09017aed-dc03-494c-a1b1-cbb0b71a0141"
          [] i = 4 -> "2058e275-2eff-4cf0-8eeb-12001129d782"
          [] i = 5 -> "2437b9ff-00d5-4cec-b629-704f72e5f5ae"]

\* main: location_index from the environment
MainLocationIndex(text) ==
    IF text # Unset /\ IntOf(text) # NotANumber THEN IntOf(text) ELSE 4

\* the import of config.py with TOAST_LOCATION_INDEX = text: "ok", or the
\* ValueError it raises (no TOAST_RESTAURANT_GUID in the environment)
Config(text, credentials) ==
    IF text # Unset /\ text # ""
    THEN IF IntOf(text) = NotANumber \/ IntOf(text) \notin DOMAIN LOCATION_GUID_MAP
         THEN "ValueError"
         ELSE IF credentials THEN "ok" ELSE "ValueError"
    ELSE "ValueError"

\* answers to the credential exchange: a token, a body without a token, 429,
\* a rejection, and a connection error or timeout
AuthResponses == {"200", "no_token", "429", "401", "conn"}

\* answers to a data request: a full and a short page, 401, 429, 5xx, another
\* 4xx, and a connection error or timeout
DataResponses == {"200_full", "200_short", "401", "429", "500", "404", "conn"}

\* what requests.post gives send_error_to_webhook
PostOutcomes == {"2xx", "non2xx", "timeout", "conn"}

\* the answers that tell of a permanent error: an authentication failure, and
\* a 4xx status other than 429
PermanentResponses == {"401", "404"}

NewRefresh(ret) ==
    [state |-> "running", ret |-> ret, current_retry |-> 0, sent |-> 0, last |-> "none",
     retried |-> {}]

\* one pass of the loop of _refresh_token that receives resp; a raise_for_status()
\* of the pass is caught by the RequestException handler of the same pass
RefreshStep(r, resp) ==
    LET r1 == [r EXCEPT !.sent = @ + 1,
                        !.retried = @ \cup ({r.last} \cap PermanentResponses),
                        !.last = resp]
    IN  IF resp = "200" THEN [r1 EXCEPT !.state = "returned"]
        ELSE IF resp = "no_token" THEN [r1 EXCEPT !.state = "ValueError"]
        ELSE IF r.current_retry < MAX_RETRIES THEN [r1 EXCEPT !.current_retry = @ + 1]
        ELSE [r1 EXCEPT !.state = "RequestException"]

NewRequest ==
    [state |-> "running", current_retry |-> 0, sent |-> 0, last |-> "none", retried |-> {},
     all_transient |-> TRUE]

\* MayRetry that never gives up
MayRetry_Always(current_retry) == TRUE

\* _make_request: if current_retry < self.MAX_RETRIES
MayRetry(current_retry) == current_retry < MAX_RETRIES

\* the retry logic of _make_request and the test of its while loop; leaving the
\* loop by its test returns None
RetryLogic(m) ==
    IF MayRetry(m.current_retry)
    THEN IF m.current_retry + 1 <= MAX_RETRIES
         THEN [m EXCEPT !.current_retry = @ + 1]
         ELSE [m EXCEPT !.current_retry = @ + 1, !.state = "returned_none"]
    ELSE [m EXCEPT !.state = "raised"]

\* IsRetryable that also takes the other 4xx statuses
IsRetryable_Any4xx(resp) == resp \in {"429", "500", "404"}

\* the statuses _make_request lets fall through to its retry logic
IsRetryable(resp) == resp \in {"429", "500"}

\* where the run goes on after a pass of _make_request
PcAfter(m) ==
    IF m.state = "running" THEN "ensure"
    ELSE IF m.state = "raised" THEN "orders_except"
    ELSE "page"

NewGetOrders(is_single_day) ==
    [state |-> "running",
     param_type |-> IF is_single_day THEN "businessDate" ELSE "dateRange",
     page |-> 1, ok |-> 0, failed |-> 0]

\* send_error_to_webhook with a POST that ends as post
SendErrorToWebhook_Retry(context, post) ==
    [context |-> context, post |-> post, posts |-> IF post = "2xx" THEN 1 ELSE 2,
     value |-> post = "2xx", escaped |-> FALSE]

\* send_error_to_webhook: the POSTs it makes, the value it returns and whether
\* an exception leaves it
SendErrorToWebhook(context, post) ==
    [context |-> context, post |-> post, posts |-> 1,
     value |-> post = "2xx", escaped |-> FALSE]

RunInit ==
    /\ TipsIdle
    /\ RosterIdle
    /\ pc = "main"
    /\ environ \in Environs
    /\ main_location_index = NoIndex
    /\ token = FALSE
    /\ rf = NoRefresh
    /\ mr = NoRequest
    /\ go = NoGetOrders
    /\ network = FALSE
    /\ reports = <<>>
    /\ OrdersIdle
    /\ MoreIdle

\* main: the location index is read from the environment
MainStart ==
    /\ pc = "main"
    /\ main_location_index' = MainLocationIndex(environ.TOAST_LOCATION_INDEX)
    /\ pc' = "client_init"
    /\ UNCHANGED <<environ, token, rf, mr, go, network, reports>>
    /\ UNCHANGED nonRunVars

\* ToastAPIClient(): config is imported, then the first token is asked for
ClientInit ==
    /\ pc = "client_init"
    /\ IF Config(StrOf(main_location_index), environ.credentials) = "ok"
       THEN /\ rf' = NewRefresh("init")
            /\ pc' = "refresh"
       ELSE /\ rf' = rf
            /\ pc' = "except"
    /\ UNCHANGED <<environ, main_location_index, token, mr, go, network, reports>>
    /\ UNCHANGED nonRunVars

\* one pass of the loop of _refresh_token
RefreshAttempt ==
    /\ pc = "refresh"
    /\ rf.state = "running"
    /\ \E resp \in AuthResponses : rf' = RefreshStep(rf, resp)
    /\ network' = TRUE
    /\ UNCHANGED <<pc, environ, main_location_index, token, mr, go, reports>>
    /\ UNCHANGED nonRunVars

\* the end of ToastAPIClient(); main goes on to client.get_orders
ClientReady ==
    /\ pc = "refresh"
    /\ rf.ret = "init"
    /\ rf.state # "running"
    /\ IF rf.state = "returned"
       THEN /\ token' = TRUE
            /\ \E is_single_day \in BOOLEAN : go' = NewGetOrders(is_single_day)
            /\ pc' = "get_orders"
       ELSE /\ token' = token
            /\ go' = go
            /\ pc' = "except"
    /\ rf' = NoRefresh
    /\ UNCHANGED <<environ, main_location_index, mr, network, reports>>
    /\ UNCHANGED nonRunVars

\* get_orders: the top of its loop, up to the call of _make_request
GetOrdersPage ==
    /\ pc = "get_orders"
    /\ mr' = NewRequest
    /\ pc' = "ensure0"
    /\ UNCHANGED <<environ, main_location_index, token, rf, go, network, reports>>
    /\ UNCHANGED nonRunVars

\* _ensure_valid_token, before the loop of _make_request and in each pass
EnsureValidToken ==
    /\ pc \in {"ensure0", "ensure"}
    /\ \E expiring \in BOOLEAN :
        IF ~token \/ expiring
        THEN /\ rf' = NewRefresh(pc)
             /\ pc' = "refresh"
        ELSE /\ rf' = rf
             /\ pc' = IF pc = "ensure0" THEN "ensure" ELSE "send"
    /\ UNCHANGED <<environ, main_location_index, token, mr, go, network, reports>>
    /\ UNCHANGED nonRunVars

\* _refresh_token has ended inside _make_request
RefreshReturn ==
    /\ pc = "refresh"
    /\ rf.ret # "init"
    /\ rf.state # "running"
    /\ rf' = NoRefresh
    /\ CASE rf.state = "ValueError" ->
              /\ mr' = [mr EXCEPT !.state = "raised", !.all_transient = FALSE]
              /\ go' = [go EXCEPT !.state = "raised"]
              /\ token' = token
              /\ pc' = "except"
         [] rf.state = "returned" /\ rf.ret = "ensure0" ->
              /\ token' = TRUE
              /\ pc' = "ensure"
              /\ UNCHANGED <<mr, go>>
         [] rf.state = "returned" /\ rf.ret = "ensure" ->
              /\ token' = TRUE
              /\ pc' = "send"
              /\ UNCHANGED <<mr, go>>
         [] rf.state = "returned" /\ rf.ret = "after401" ->
              /\ token' = TRUE
              /\ mr' = IF mr.current_retry < MAX_RETRIES
                       THEN [mr EXCEPT !.current_retry = @ + 1]
                       ELSE [mr EXCEPT !.state = "raised"]
              /\ pc' = PcAfter(mr')
              /\ go' = go
         [] rf.state = "RequestException" /\ rf.ret = "ensure0" ->
              /\ mr' = [mr EXCEPT !.state = "raised"]
              /\ pc' = "orders_except"
              /\ UNCHANGED <<token, go>>
         [] rf.state = "RequestException" /\ rf.ret \in {"ensure", "after401"} ->
              /\ mr' = RetryLogic([mr EXCEPT !.all_transient = FALSE])
              /\ pc' = PcAfter(mr')
              /\ UNCHANGED <<token, go>>
    /\ UNCHANGED <<environ, main_location_index, network, reports>>
    /\ UNCHANGED nonRunVars

\* _make_request: the data request of one pass and what follows its answer
SendRequest ==
    /\ pc = "send"
    /\ \E resp \in DataResponses :
        /\ resp = "200_full" => go.page < MaxPages
        /\ LET m1 == [mr EXCEPT
                        !.sent = @ + 1,
                        !.retried = @ \cup ({mr.last} \cap PermanentResponses),
                        !.last = resp,
                        !.all_transient = @ /\ resp \in {"429", "500", "conn"}]
           IN  IF resp = "conn"
               THEN /\ mr' = RetryLogic(m1)
                    /\ pc' = PcAfter(mr')
                    /\ rf' = rf
               ELSE IF resp = "401"
               THEN /\ mr' = m1
                    /\ rf' = NewRefresh("after401")
                    /\ pc' = "refresh"
               ELSE IF IsRetryable(resp)
               THEN /\ mr' = RetryLogic(m1)
                    /\ pc' = PcAfter(mr')
                    /\ rf' = rf
               ELSE IF resp \in {"200_full", "200_short"}
               THEN /\ mr' = [m1 EXCEPT !.state = "returned"]
                    /\ pc' = "page"
                    /\ rf' = rf
               ELSE /\ mr' = [m1 EXCEPT !.state = "raised"]
                    /\ pc' = "orders_except"
                    /\ rf' = rf
    /\ network' = TRUE
    /\ UNCHANGED <<environ, main_location_index, token, go, reports>>
    /\ UNCHANGED nonRunVars

\* get_orders: a page has come back
GetOrdersResult ==
    /\ pc = "page"
    /\ LET full == mr.state = "returned" /\ mr.last = "200_full"
       IN  /\ go' = [go EXCEPT !.ok = @ + 1,
                               !.page = IF full THEN @ + 1 ELSE @,
                               !.state = IF full THEN "running" ELSE "returned"]
           /\ pc' = IF full THEN "get_orders" ELSE "process"
    /\ mr' = NoRequest
    /\ UNCHANGED <<environ, main_location_index, token, rf, network, reports>>
    /\ UNCHANGED nonRunVars

\* get_orders: except requests.exceptions.RequestException
GetOrdersExcept ==
    /\ pc = "orders_except"
    /\ IF go.param_type = "businessDate" /\ go.page = 1
       THEN /\ go' = [go EXCEPT !.param_type = "dateRange", !.page = 1, !.ok = 0,
                                !.failed = @ + 1]
            /\ pc' = "get_orders"
       ELSE /\ go' = [go EXCEPT !.failed = @ + 1, !.state = "returned"]
            /\ pc' = "process"
    /\ mr' = NoRequest
    /\ UNCHANGED <<environ, main_location_index, token, rf, network, reports>>
    /\ UNCHANGED nonRunVars

\* main: the orders of the response go through process_tips_data, which raises
\* on a malformed record
Process ==
    /\ pc = "process"
    /\ \E raises \in BOOLEAN :
        /\ raises => go.ok > 0
        /\ pc' = IF raises THEN "except" ELSE "output"
    /\ UNCHANGED <<environ, main_location_index, token, rf, mr, go, network, reports>>
    /\ UNCHANGED nonRunVars

\* main: the output file; a failure to write it is reported and raised again
Output ==
    /\ pc = "output"
    /\ \E write \in {"none", "ok", "fails"} :
        IF write = "fails"
        THEN /\ \E post \in PostOutcomes :
                  reports' = Append(reports, SendErrorToWebhook("file_write", post))
             /\ pc' = "except"
        ELSE /\ reports' = reports
             /\ pc' = "done"
    /\ UNCHANGED <<environ, main_location_index, token, rf, mr, go, network>>
    /\ UNCHANGED nonRunVars

\* main: except Exception - the error is reported and the script exits with 1
ReportAndExit ==
    /\ pc = "except"
    /\ \E post \in PostOutcomes :
        reports' = Append(reports, SendErrorToWebhook("main_execution", post))
    /\ pc' = "exit1"
    /\ UNCHANGED <<environ, main_location_index, token, rf, mr, go, network>>
    /\ UNCHANGED nonRunVars

RunNext ==
    \/ MainStart
    \/ ClientInit
    \/ RefreshAttempt
    \/ ClientReady
    \/ GetOrdersPage
    \/ EnsureValidToken
    \/ RefreshReturn
    \/ SendRequest
    \/ GetOrdersResult
    \/ GetOrdersExcept
    \/ Process
    \/ Output
    \/ ReportAndExit

\* A run of the script from its start to its exit.
SpecRun == RunInit /\ [][RunNext]_vars

-----------------------------------------------------------------------------
(* Claims about a run of the script *)

\* C6: when every request for orders fails, get_orders does not return a
\* normal result: the failure reaches its caller as an error.
C6_TotalFetchFailurePropagates ==
    (go.failed > 0 /\ go.ok = 0) => go.state # "returned"

\* C7: one call of _make_request sends at most MAX_RETRIES + 1 data requests;
\* while every attempt meets a transient failure each attempt uses up a retry,
\* and the call ends only by raising, after MAX_RETRIES + 1 requests.
C7_BoundedAttemptsThenRaise ==
    /\ mr.sent <= MAX_RETRIES + 1
    /\ (mr.all_transient /\ mr.state = "running") => mr.current_retry = mr.sent
    /\ (mr.all_transient /\ mr.sent > 0 /\ mr.state \notin {"idle", "running"})
          => (mr.state = "raised" /\ mr.sent = MAX_RETRIES + 1)

\* a call of _make_request has raised after six requests that all met a
\* transient failure
C7_Witness ==
    /\ pc = "orders_except"
    /\ mr.state = "raised"
    /\ mr.all_transient
    /\ mr.sent = MAX_RETRIES + 1
    /\ mr.last \in {"429", "500", "conn"}

InvalidIndexTexts == {"", "abc", "0", "7"}

\* C9: with missing credentials or an invalid TOAST_LOCATION_INDEX the run
\* fails at start-up before any token exchange or data request, and an invalid
\* index is not replaced by a location.
C9_InvalidConfigurationFailsAtStartup ==
    /\ (~environ.credentials \/ environ.TOAST_LOCATION_INDEX \in InvalidIndexTexts)
          => (~network /\ pc \in {"main", "client_init", "except", "exit1"})
    /\ environ.TOAST_LOCATION_INDEX \in InvalidIndexTexts
          => main_location_index \notin DOMAIN LOCATION_GUID_MAP

C26_NoTruncatedReturn ==
    go.state = "returned" => ~(go.page > 1 /\ go.ok = go.page - 1)

\* C26 for the calls in which no request for a page has failed: the pages up
\* to the first short one are all there.
C26_CompleteWithoutFailure ==
    (go.state = "returned" /\ go.failed = 0) => go.ok = go.page

-----------------------------------------------------------------------------
(* process_orders_data (functions/get_orders/get_orders.py).  Amounts are
   counted in thousandths of a dollar, so that round(x, 2) has work to do. *)

location_category_maps ==
    [loc \in 1..5 |->
        CASE loc = 1 ->
               ("bcd1b36a-8ff1-48cf-9190-084cc0c78776" :> "Food"
                @@ "ad216e1f-aae1-4c7e-a664-7bd1497bea2f" :> "NA Beverage"
                @@ "59c5ad7d-a3c2-48a9-bc4a-b7a1217f6592" :> "Liquor"
                @@ "b931698b-5fd1-44a1-9b51-8e013202cc8e" :> "Draft Beer"
                @@ "1d06f0a0-6643-4942-aace-9de852bcd5a2" :> "Bottled Beer"
                @@ "3276434c-d165-4c43-90f8-9a3032dcf5a7" :> "Wine")
          [] loc = 2 ->
               ("32a8246e-febc-46fd-aead-ea4f3e88d258" :> "Food"
                @@ "739c715d-3c4f-4230-ae68-0abac14fa9d4" :> "Market"
                @@ "89911839-70f0-43fc-af9d-582fbf906ddb" :> "Wine Bottle")
          [] loc = 3 ->
               ("53269235-c054-45f6-9f63-ece5dac6a174" :> "Food"
                @@ "adba1578-989b-4f8c-b300-6f516bbf0065" :> "NA Beverage"
                @@ "1f58d463-1610-4032-8b05-003e2d9fb828" :> "Liquor"
                @@ "1d9b2997-0a7c-41ae-b995-c19823c584f6" :> "Beer Bottle"
                @@ "e67839f8-4e28-4d42-9e9c-34b40787fb6b" :> "Beer Keg"
                @@ "681460a5-608f-42b5-bdbb-f6a9263d92f2" :> "Wine Bottle"
                @@ "57f0e230-b508-4406-ba2d-0210a60aabc4" :> "Wine Keg")
          [] loc = 4 ->
               ("758a34df-b27f-419a-81b8-2c56a663f15b" :> "Food"
                @@ "64a6a7fb-f3ce-4f2f-936d-39118bda785f" :> "NA Beverage"
                @@ "dc3bad48-66ff-4183-9cd3-7a3552ab5973" :> "Liquor"
                @@ "ef6790cb-64f3-4887-84b2-fd348dac46a9" :> "Beer Bottle"
                @@ "fcd1cbdc-361f-4f66-93f2-53467adfd134" :> "Beer Keg"
                @@ "d0ea6c37-bf62-415a-a40d-6a4a824bb661" :> "Wine Bottle"
                @@ "3e611002-7c96-4b20-a228-a05efc70c2c3" :> "Wine Keg")
          [] loc = 5 ->
               ("87cad208-2fe9-4099-ba3d-da367a951b05" :> "Food"
                @@ "6a7eb3d6-27d0-44d2-883b-c2615ac13f1a" :> "NA Beverage"
                @@ "5b57fb6c-89fb-404f-8358-357cc51c62bd" :> "Liquor"
                @@ "30a4bc57-ad0c-466a-887d-5ea0387c1efc" :> "Beer Bottle"
                @@ "e4566b76-1f88-4e8c-a90d-2f8a00543f04" :> "Beer Keg"
                @@ "d647c1b5-e55d-4b3e-b1b0-c2272fbc75ee" :> "Wine Bottle"
                @@ "30812d57-5b44-48a0-8150-498d6287d5d3" :> "Wine Keg")]

\* the categories of a location: the keys of its initialization dictionary
location_category_initializations ==
    [loc \in 1..5 |->
        CASE loc = 1 ->
               {"Food", "NA Beverage", "Liquor", "Draft Beer", "Bottled Beer", "Wine",
                "Corkage Fee", "Other"}
          [] loc = 2 ->
               {"Food", "Market", "NA Beverage", "Liquor", "Beer Bottle", "Beer Keg",
                "Wine Bottle", "Wine Keg", "Corkage Fee", "Other"}
          [] OTHER ->
               {"Food", "NA Beverage", "Liquor", "Beer Bottle", "Beer Keg", "Wine Bottle",
                "Wine Keg", "Corkage Fee", "Other"}]

\* location_category_maps.get(location_index, location_category_maps[4])
category_guid_map(loc) ==
    IF loc \in DOMAIN location_category_maps
    THEN location_category_maps[loc] ELSE location_category_maps[4]

\* location_category_initializations.get(location_index, ...[4])
category_init(loc) ==
    IF loc \in DOMAIN location_category_initializations
    THEN location_category_initializations[loc] ELSE location_category_initializations[4]

\* displayName.strip() of the names of the model
Strip(name) == IF name = " Gift Card " THEN "Gift Card" ELSE name

GiftCardNames == {"Gift Card", "eGift Card", "Add Value ($)"}

\* round(x, 2) of an amount in thousandths: the nearest hundredth, a tie to the
\* even one
Round2(m) ==
    LET q == m \div 10
        r == m % 10
    IN  IF r < 5 THEN 10 * q
        ELSE IF r > 5 THEN 10 * (q + 1)
        ELSE IF q % 2 = 0 THEN 10 * q ELSE 10 * (q + 1)

RECURSIVE SumSeq(_)
\* sum(...) over a sequence of amounts
SumSeq(s) == IF s = <<>> THEN 0 ELSE Head(s) + SumSeq(Tail(s))

\* SelectionExcluded when gift cards stay in the check subtotal
SelectionExcluded_VoidedOnly(sel) == sel.voided

\* the selection is left out of every total
SelectionExcluded(sel) == sel.voided \/ Strip(sel.displayName) \in GiftCardNames

\* check_subtotal
CheckSubtotal(chk) ==
    LET pre(sel) == IF SelectionExcluded(sel) THEN 0 ELSE sel.preDiscountPrice
    IN  SumSeq([i \in DOMAIN chk.selections |-> pre(chk.selections[i])])

\* the sum of the non-gratuity service charges of a check
NonGratCharges(chk) ==
    LET amount(sc) == IF sc.gratuity THEN 0 ELSE sc.chargeAmount
    IN  SumSeq([i \in DOMAIN chk.appliedServiceCharges |->
                    amount(chk.appliedServiceCharges[i])])

\* CategoryOf when the table of the location is consulted before the name
CategoryOf_GuidFirst(sel, order_source, loc) ==
    LET category ==
            IF sel.salesCategory \in DOMAIN category_guid_map(loc)
            THEN category_guid_map(loc)[sel.salesCategory]
            ELSE IF sel.displayName = "Corkage Fee" THEN "Corkage Fee"
            ELSE "Other"
    IN  IF category = "Other" /\ order_source = "API" /\ loc = 4 THEN "Food" ELSE category

\* category of a selection
CategoryOf(sel, order_source, loc) ==
    LET category ==
            IF sel.displayName = "Corkage Fee" THEN "Corkage Fee"
            ELSE IF sel.salesCategory \in DOMAIN category_guid_map(loc)
            THEN category_guid_map(loc)[sel.salesCategory]
            ELSE "Other"
    IN  IF category = "Other" /\ order_source = "API" /\ loc = 4 THEN "Food" ELSE category

\* ItemDiscount when the voided discounts are summed with the others
ItemDiscount_VoidedToo(sel) ==
    LET has_non_voided_discounts ==
            \E i \in DOMAIN sel.appliedDiscounts :
                sel.appliedDiscounts[i].processingState # "VOID"
    IN  IF sel.appliedDiscounts # <<>> /\ has_non_voided_discounts
        THEN SumSeq([i \in DOMAIN sel.appliedDiscounts |->
                        sel.appliedDiscounts[i].discountAmount])
        ELSE sel.preDiscountPrice - sel.price

\* item_discount of a selection
ItemDiscount(sel) ==
    LET nonVoided(d) == IF d.processingState # "VOID" THEN d.discountAmount ELSE 0
        has_non_voided_discounts ==
            \E i \in DOMAIN sel.appliedDiscounts :
                sel.appliedDiscounts[i].processingState # "VOID"
    IN  IF sel.appliedDiscounts # <<>> /\ has_non_voided_discounts
        THEN SumSeq([i \in DOMAIN sel.appliedDiscounts |->
                        nonVoided(sel.appliedDiscounts[i])])
        ELSE sel.preDiscountPrice - sel.price

\* CategoryZeros when the totals of the previous call are kept
CategoryZeros_Carried(loc) ==
    IF tw.pc = "once" THEN tw.left.category_totals ELSE [c \in category_init(loc) |-> 0]

\* category_init.copy(): a fresh dictionary of zeros for every call
CategoryZeros(loc) == [c \in category_init(loc) |-> 0]

\* the accumulators at the start of a call
OrdersAccInit(loc) ==
    [item_summary |-> <<>>,
     category_totals |-> CategoryZeros(loc),
     raw_category_totals |-> CategoryZeros(loc),
     category_discounts |-> CategoryZeros(loc),
     category_item_counts |-> CategoryZeros(loc),
     category_service_charges |-> CategoryZeros(loc),
     voided_items_count |-> 0,
     gift_card_items_count |-> 0,
     total_non_grat_service_charges |-> 0]

\* item_summary after a counted selection
ItemSummaryStep(item_summary, item_name, category, raw_total_price, item_discount, quantity) ==
    IF item_name \in DOMAIN item_summary
    THEN [item_summary EXCEPT
            ![item_name] = [@ EXCEPT !.quantity = @ + quantity,
                                     !.raw_sales = @ + raw_total_price,
                                     !.discounts = @ + item_discount,
                                     !.net_sales = @ + (raw_total_price - item_discount)]]
    ELSE (item_name :> [quantity |-> quantity,
                        raw_sales |-> raw_total_price,
                        net_sales |-> raw_total_price - item_discount,
                        category |-> category,
                        discounts |-> item_discount]) @@ item_summary

\* SelectionStep when a negative item discount is recorded like a positive one
SelectionStep_SignedDiscount(a, order_source, loc, chk, sel) ==
    IF sel.voided THEN [a EXCEPT !.voided_items_count = @ + 1]
    ELSE IF Strip(sel.displayName) \in GiftCardNames
    THEN [a EXCEPT !.gift_card_items_count = @ + 1]
    ELSE
        LET category == CategoryOf(sel, order_source, loc)
            raw_total_price == sel.preDiscountPrice
            item_discount == ItemDiscount(sel)
            discounted_total_price == raw_total_price - item_discount
            check_subtotal == CheckSubtotal(chk)
        IN  [a EXCEPT
               !.item_summary = ItemSummaryStep(@, sel.displayName, category, raw_total_price,
                                                item_discount, sel.quantity),
               !.category_discounts[category] = @ + item_discount,
               !.raw_category_totals[category] = @ + raw_total_price,
               !.category_totals[category] = @ + discounted_total_price,
               !.category_item_counts[category] = @ + sel.quantity,
               !.category_service_charges[category] =
                   IF check_subtotal > 0
                   THEN @ + (NonGratCharges(chk) * raw_total_price) \div check_subtotal
                   ELSE @]

\* the body of the loop over the selections of a check
SelectionStep(a, order_source, loc, chk, sel) ==
    IF sel.voided THEN [a EXCEPT !.voided_items_count = @ + 1]
    ELSE IF Strip(sel.displayName) \in GiftCardNames
    THEN [a EXCEPT !.gift_card_items_count = @ + 1]
    ELSE
        LET category == CategoryOf(sel, order_source, loc)
            raw_total_price == sel.preDiscountPrice
            item_discount == ItemDiscount(sel)
            discounted_total_price == raw_total_price - item_discount
            check_subtotal == CheckSubtotal(chk)
        IN  [a EXCEPT
               !.item_summary = ItemSummaryStep(@, sel.displayName, category, raw_total_price,
                                                item_discount, sel.quantity),
               !.category_discounts[category] = IF item_discount > 0 THEN @ + item_discount ELSE @,
               !.raw_category_totals[category] = @ + raw_total_price,
               !.category_totals[category] = @ + discounted_total_price,
               !.category_item_counts[category] = @ + sel.quantity,
               !.category_service_charges[category] =
                   IF check_subtotal > 0
                   THEN @ + (NonGratCharges(chk) * raw_total_price) \div check_subtotal
                   ELSE @]

RECURSIVE SelectionsLoop(_, _, _, _, _)
\* for selection in check.get('selections', [])
SelectionsLoop(a, order_source, loc, chk, sels) ==
    IF sels = <<>> THEN a
    ELSE SelectionsLoop(SelectionStep(a, order_source, loc, chk, Head(sels)),
                        order_source, loc, chk, Tail(sels))

\* the body of the loop over the orders, for an order with one check
OrderBody(a, o, loc) ==
    LET a1 == [a EXCEPT !.total_non_grat_service_charges = @ + NonGratCharges(o.check)]
    IN  SelectionsLoop(a1, o.source, loc, o.check, o.check.selections)

\* total_sales without the discounts
TotalSales_NetOnly(net_sales, discounts) ==
    [c \in DOMAIN net_sales |-> Round2(net_sales[c])]

\* total_sales of the categories: round(net_sales + category_discounts, 2)
TotalSales(net_sales, discounts) ==
    [c \in DOMAIN net_sales |-> Round2(net_sales[c] + discounts[c])]

\* the roundings and totals after the loop, and the result
OrdersResult(a, loc) ==
    LET net_sales == [c \in category_init(loc) |-> Round2(a.category_totals[c])]
        gross_sales == [c \in category_init(loc) |-> Round2(a.raw_category_totals[c])]
        discounts == [c \in category_init(loc) |-> Round2(a.category_discounts[c])]
        total_sales == TotalSales(net_sales, discounts)
    IN  [items |-> {[name |-> n,
                     quantity |-> a.item_summary[n].quantity,
                     raw_sales |-> Round2(a.item_summary[n].raw_sales),
                     net_sales |-> Round2(a.item_summary[n].net_sales),
                     category |-> a.item_summary[n].category,
                     discounts |-> Round2(a.item_summary[n].discounts)] :
                        n \in DOMAIN a.item_summary},
         net_sales |-> net_sales,
         gross_sales |-> gross_sales,
         category_counts |-> a.category_item_counts,
         category_discounts |-> discounts,
         category_discounts_Total |-> Round2(SumOver(discounts, category_init(loc))),
         voided_items_count |-> a.voided_items_count,
         gift_card_items_count |-> a.gift_card_items_count,
         nonGratServiceCharges |-> Round2(a.total_non_grat_service_charges),
         nonGratServiceChargesAggregates |->
             [c \in category_init(loc) |-> Round2(a.category_service_charges[c])],
         total_sales |-> total_sales,
         total_sales_total |-> Round2(SumOver(total_sales, category_init(loc) \ {"Other"})),
         locationIndex |-> loc]

NoDiscounts == <<>>
Applied(amount) == [processingState |-> "APPLIED", discountAmount |-> amount]
Voided(amount) == [processingState |-> "VOID", discountAmount |-> amount]

Selection(name, guid, pre, price, discounts, voided) ==
    [voided |-> voided, displayName |-> name, salesCategory |-> guid, quantity |-> 1,
     preDiscountPrice |-> pre, price |-> price, appliedDiscounts |-> discounts]

FoodGuid == "758a34df-b27f-419a-81b8-2c56a663f15b"
LiquorGuid == "dc3bad48-66ff-4183-9cd3-7a3552ab5973"
MarketGuid == "739c715d-3c4f-4230-ae68-0abac14fa9d4"

\* The selections of the model: without a discount, with an applied one, with
\* a voided one, with both, dearer than its pre-discount price, amounts that
\* are not whole cents, corkage fees without and with a sales category, an
\* unknown category, a voided selection, gift cards and a free item.
Selections ==
    {Selection("Burger", FoodGuid, 1000, 1000, NoDiscounts, FALSE),
     Selection("Burger", FoodGuid, 1208, 1000, <<Applied(204)>>, FALSE),
     Selection("Negroni", LiquorGuid, 2004, 1000, <<Voided(500)>>, FALSE),
     Selection("Negroni", LiquorGuid, 2004, 1000, <<Voided(500), Applied(204)>>, FALSE),
     Selection("Bread", MarketGuid, 1000, 1204, NoDiscounts, FALSE),
     Selection("Corkage Fee", "", 1000, 996, NoDiscounts, FALSE),
     Selection("Corkage Fee", FoodGuid, 1500, 1500, NoDiscounts, FALSE),
     Selection("Mystery", "", 1004, 1000, NoDiscounts, FALSE),
     Selection("Burger", FoodGuid, 1000, 1000, NoDiscounts, TRUE),
     Selection("Gift Card", FoodGuid, 1000, 1000, NoDiscounts, FALSE),
     Selection(" Gift Card ", "", 1000, 996, NoDiscounts, FALSE),
     Selection("eGift Card", FoodGuid, 1000, 1000, NoDiscounts, TRUE),
     Selection("Water", FoodGuid, 0, 0, NoDiscounts, FALSE)}

ServiceCharges ==
    {<<>>, <<[gratuity |-> FALSE, chargeAmount |-> 300]>>,
     <<[gratuity |-> TRUE, chargeAmount |-> 500], [gratuity |-> FALSE, chargeAmount |-> 300]>>}

\* The orders of the model: one check with one selection and any of the service
\* charges, or with a plain burger and a second selection, without or with a
\* service charge.
OrdersOfModel ==
    {[source |-> src, check |-> [selections |-> <<sel>>, appliedServiceCharges |-> sc]] :
        src \in {"In Store", "API"}, sel \in Selections, sc \in ServiceCharges}
    \cup
    {[source |-> "In Store",
      check |-> [selections |-> <<Selection("Burger", FoodGuid, 1000, 1000, NoDiscounts, FALSE),
                                  sel>>,
                 appliedServiceCharges |-> sc]] :
        sel \in Selections, sc \in {<<>>, <<[gratuity |-> FALSE, chargeAmount |-> 300]>>}}

\* the selection bears one of the gift-card names
IsGiftCard(sel) == Strip(sel.displayName) \in GiftCardNames

\* the discount of a selection as the sum of its applied discounts that are not
\* VOID when there is one, else preDiscountPrice - price
LiveDiscount(sel) ==
    LET live == {i \in DOMAIN sel.appliedDiscounts :
                    sel.appliedDiscounts[i].processingState # "VOID"}
    IN  IF live # {}
        THEN SumOver([i \in live |-> sel.appliedDiscounts[i].discountAmount], live)
        ELSE sel.preDiscountPrice - sel.price

\* every category name of a location
AllCategories == UNION {location_category_initializations[loc] : loc \in 1..5}

\* the category of a selection by precedence: the name 'Corkage Fee', then the
\* table of the location, then 'Food' for an API order at location 4, then 'Other'
CategoryByPrecedence(sel, order_source, loc) ==
    IF sel.displayName = "Corkage Fee" THEN "Corkage Fee"
    ELSE IF loc \in 1..5 /\ sel.salesCategory \in DOMAIN location_category_maps[loc]
    THEN location_category_maps[loc][sel.salesCategory]
    ELSE IF order_source = "API" /\ loc = 4 THEN "Food"
    ELSE "Other"

\* The history of a call: the accumulators of the same call over the batch
\* without its gift-card selections, the selections seen of each kind, the
\* discounts and net totals of the counted selections, the counted selections
\* of each category by precedence, those whose category is no key of the
\* totals, and in each category the amounts by which counted selections were
\* dearer than their pre-discount price.
OrdersHistInit(loc) ==
    [without_gift |-> OrdersAccInit(loc), gift_named |-> 0, gift_not_voided |-> 0,
     voided |-> 0, discounts |-> 0, net |-> 0, zero_subtotal_charges |-> 0,
     by_precedence |-> [c \in AllCategories |-> 0], unknown_category |-> 0,
     excess |-> [c \in AllCategories |-> 0]]

OrdersHistStep(h, o, loc) ==
    LET sels == o.check.selections
        NotGift(s) == ~IsGiftCard(s)
        idx == DOMAIN sels
        counted == {i \in idx : ~sels[i].voided /\ ~IsGiftCard(sels[i])}
    IN  [without_gift |->
             OrderBody(h.without_gift,
                       [o EXCEPT !.check.selections = SelectSeq(sels, NotGift)], loc),
         gift_named |-> h.gift_named + Cardinality({i \in idx : IsGiftCard(sels[i])}),
         gift_not_voided |->
             h.gift_not_voided
                 + Cardinality({i \in idx : IsGiftCard(sels[i]) /\ ~sels[i].voided}),
         voided |-> h.voided + Cardinality({i \in idx : sels[i].voided}),
         discounts |->
             h.discounts + SumOver([i \in counted |-> LiveDiscount(sels[i])], counted),
         net |->
             h.net + SumOver([i \in counted |->
                                 sels[i].preDiscountPrice - LiveDiscount(sels[i])], counted),
         zero_subtotal_charges |->
             h.zero_subtotal_charges
                 + (IF CheckSubtotal(o.check) = 0 /\ counted # {}
                    THEN NonGratCharges(o.check) ELSE 0),
         by_precedence |->
             [c \in AllCategories |->
                 h.by_precedence[c]
                     + Cardinality({i \in counted :
                                       CategoryByPrecedence(sels[i], o.source, loc) = c})],
         unknown_category |->
             h.unknown_category
                 + Cardinality({i \in counted :
                                   CategoryOf(sels[i], o.source, loc) \notin category_init(loc)}),
         excess |->
             [c \in AllCategories |->
                 LET dearer == {i \in counted : /\ CategoryOf(sels[i], o.source, loc) = c
                                                /\ ItemDiscount(sels[i]) < 0}
                 IN  h.excess[c] + SumOver([i \in dearer |-> 0 - ItemDiscount(sels[i])], dearer)]]

OrdersInit ==
    /\ TipsIdle
    /\ RosterIdle
    /\ RunIdle
    /\ MoreIdle
    /\ orders_pc = "orders"
    /\ orders_location_index \in {2, 4}
    /\ orders_read = 0
    /\ orders_acc = OrdersAccInit(orders_location_index)
    /\ orders_result = <<>>
    /\ orders_hist = OrdersHistInit(orders_location_index)

\* for order in orders_data
ProcessOrder ==
    /\ orders_pc = "orders"
    /\ orders_read < MaxOrders
    /\ \E o \in OrdersOfModel :
        /\ orders_acc' = OrderBody(orders_acc, o, orders_location_index)
        /\ orders_hist' = OrdersHistStep(orders_hist, o, orders_location_index)
    /\ orders_read' = orders_read + 1
    /\ UNCHANGED <<orders_pc, orders_location_index, orders_result>>
    /\ UNCHANGED nonOrdersVars

\* after the loop: the totals are rounded and the result is returned
FinishOrders ==
    /\ orders_pc = "orders"
    /\ orders_result' = OrdersResult(orders_acc, orders_location_index)
    /\ orders_pc' = "done"
    /\ UNCHANGED <<orders_location_index, orders_read, orders_acc, orders_hist>>
    /\ UNCHANGED nonOrdersVars

OrdersNext ==
    \/ ProcessOrder
    \/ FinishOrders

\* process_orders_data over a batch that is read order by order.
SpecOrders == OrdersInit /\ [][OrdersNext]_vars

-----------------------------------------------------------------------------
(* Claims about process_orders_data *)

Aggregates(a) == [a EXCEPT !.gift_card_items_count = 0, !.voided_items_count = 0]

\* C13 as stated: every selection with a gift-card name adds nothing to the
\* item list, to a category total or to the check subtotal, adds one to
\* gift_card_items_count and is not counted in voided_items_count.
C13_GiftCardsCountedApart ==
    /\ Aggregates(orders_acc) = Aggregates(orders_hist.without_gift)
    /\ orders_acc.gift_card_items_count = orders_hist.gift_named
    /\ orders_acc.voided_items_count = orders_hist.without_gift.voided_items_count

\* C13, amended: a selection with a gift-card name adds nothing to the item
\* list, to a category total or to the check subtotal; when it is not voided it
\* adds one to gift_card_items_count and nothing to voided_items_count, and
\* when it is voided it is counted in voided_items_count like every voided
\* selection and not in gift_card_items_count.
C13_LiveGiftCardsCountedApart ==
    /\ Aggregates(orders_acc) = Aggregates(orders_hist.without_gift)
    /\ orders_acc.gift_card_items_count = orders_hist.gift_not_voided
    /\ orders_acc.voided_items_count = orders_hist.voided
    /\ orders_pc = "done" =>
          \A item \in orders_result.items : Strip(item.name) \notin GiftCardNames

\* the result of one order whose check holds a gift card, a counted selection
\* and a service charge
C13_Witness ==
    /\ orders_pc = "done"
    /\ orders_read = 1
    /\ orders_hist.gift_not_voided = 1
    /\ orders_result.gift_card_items_count = 1
    /\ orders_result.items # {}
    /\ \E c \in category_init(orders_location_index) :
          orders_result.nonGratServiceChargesAggregates[c] > 0

\* the sum of a field over the items of item_summary
ItemsTotal(field) ==
    LET names == DOMAIN orders_acc.item_summary
    IN  SumOver([n \in names |-> orders_acc.item_summary[n][field]], names)

C21_CategoryByPrecedence ==
    LET cats == category_init(orders_location_index)
    IN  /\ DOMAIN orders_acc.category_item_counts = cats
        /\ \A c \in cats : orders_acc.category_item_counts[c] = orders_hist.by_precedence[c]
        /\ \A c \in AllCategories \ cats : orders_hist.by_precedence[c] = 0
        /\ orders_hist.unknown_category = 0
        /\ \A loc \in 1..5 :
              /\ \A g \in DOMAIN category_guid_map(loc) :
                    category_guid_map(loc)[g] \in category_init(loc)
              /\ {"Corkage Fee", "Other"} \subseteq category_init(loc)
        /\ "Food" \in category_init(4)

\* at location 4 two API orders were read: a corkage fee that carries the
\* sales category of Food was counted as 'Corkage Fee', and an item without a
\* known sales category as 'Food'
C21_Witness ==
    /\ orders_location_index = 4
    /\ orders_read = 2
    /\ DOMAIN orders_acc.item_summary = {"Corkage Fee", "Mystery"}
    /\ orders_acc.item_summary["Corkage Fee"].raw_sales = 1500
    /\ orders_acc.item_summary["Corkage Fee"].category = "Corkage Fee"
    /\ orders_acc.item_summary["Mystery"].category = "Food"
    /\ orders_acc.category_item_counts["Corkage Fee"] = 1
    /\ orders_acc.category_item_counts["Food"] = 1
    /\ orders_acc.category_item_counts["Other"] = 0

Apart(x, y) == IF x < y THEN y - x ELSE x - y

-----------------------------------------------------------------------------
(* process_orders_data and process_tips_data as functions of their arguments,
   and an aggregator called twice over one batch *)

\* every sequence over S of length at most n
SeqsUpTo(S, n) == UNION {[1..k -> S] : k \in 0..n}

RECURSIVE OrdersDataLoop(_, _, _)
\* for order in orders_data
OrdersDataLoop(a, orders_data, loc) ==
    IF orders_data = <<>> THEN a
    ELSE OrdersDataLoop(OrderBody(a, Head(orders_data), loc), Tail(orders_data), loc)

\* the locals of process_orders_data when it returns
OrdersLocals(orders_data, loc) == OrdersDataLoop(OrdersAccInit(loc), orders_data, loc)

\* process_orders_data(orders_data, location_index)
ProcessOrdersData(orders_data, loc) == OrdersResult(OrdersLocals(orders_data, loc), loc)

RECURSIVE TimeEntriesLoop(_, _, _, _, _, _)
\* for entry in time_entries_data; an exception in the loop gives the empty roster
TimeEntriesLoop(roster, es, a, jobs, loc, dr) ==
    IF es = <<>> THEN roster
    ELSE IF EntryRaises(Head(es), dr) THEN EmptyBag
    ELSE TimeEntriesLoop(IF EntrySkipped(Head(es), dr) THEN roster
                         ELSE roster (+) SetToBag({RosterRow(Head(es), a, jobs, loc)}),
                         Tail(es), a, jobs, loc, dr)

\* process_tips_data(orders_data, location_index, date_range) for a batch of one
\* order, with the employee and time-entry data the API gives
ProcessTipsData(b, loc, dr, jobs, es) ==
    LET a == OrdersLoop(b, BusinessDateOverride(dr))
        roster == TimeEntriesLoop(EmptyBag, es, a, jobs, loc, dr)
    IN  IF a.raised THEN [raised |-> TRUE]
        ELSE [raised |-> FALSE,
              result |-> FoldRows(BuildResult(a), roster),
              timeEntries |-> roster]

\* The order batches of the calls of process_orders_data: in-store orders of
\* one selection without service charges.
TwiceOrders ==
    {o \in OrdersOfModel :
        o.source = "In Store" /\ Len(o.check.selections) = 1
            /\ o.check.appliedServiceCharges = <<>>}

\* The time entries of the calls of process_tips_data.
TwiceEntries ==
    {[businessDate |-> 20250501, employeeReference |-> "s1",
      jobReference |-> server_job_guid, declaredCashTips |-> 3],
     [businessDate |-> 20250502, employeeReference |-> "s2",
      jobReference |-> "", declaredCashTips |-> 0],
     [businessDate |-> 20250501, employeeReference |-> "s1",
      jobReference |-> other_position_guid, declaredCashTips |-> NotANumber]}

TwiceInit ==
    /\ TipsIdle
    /\ RosterIdle
    /\ RunIdle
    /\ OrdersIdle
    /\ ServerIdle
    /\ ChargesIdle
    /\ ClientIdle
    /\ JobsIdle
    /\ \/ \E data \in SeqsUpTo(TwiceOrders, MaxOrders), loc \in {2, 4} :
            tw = [pc |-> "start", fn |-> "process_orders_data", orders_data |-> data,
                  before |-> data, args |-> [location_index |-> loc],
                  left |-> <<>>, first |-> <<>>, second |-> <<>>]
       \/ \E b \in Batches, dr \in DateRanges, jobs \in EmployeeJobs,
              es \in SeqsUpTo(TwiceEntries, MaxTimeEntries) :
            tw = [pc |-> "start", fn |-> "process_tips_data", orders_data |-> b,
                  before |-> b,
                  args |-> [location_index |-> 4, date_range |-> dr, jobs |-> jobs,
                            time_entries |-> es],
                  left |-> <<>>, first |-> <<>>, second |-> <<>>]

\* process_orders_data is called; it reads orders_data and assigns only to its
\* locals, which are dropped when it returns
CallProcessOrdersData ==
    /\ tw.pc = "start"
    /\ tw.fn = "process_orders_data"
    /\ tw' = [tw EXCEPT
                 !.pc = "once",
                 !.first = ProcessOrdersData(tw.orders_data, tw.args.location_index),
                 !.left = OrdersLocals(tw.orders_data, tw.args.location_index)]
    /\ UNCHANGED <<mainVars, serverVars, chargesVars>>

\* process_orders_data is called again with the same arguments
CallProcessOrdersDataAgain ==
    /\ tw.pc = "once"
    /\ tw.fn = "process_orders_data"
    /\ tw' = [tw EXCEPT
                 !.pc = "twice",
                 !.second = ProcessOrdersData(tw.orders_data, tw.args.location_index)]
    /\ UNCHANGED <<mainVars, serverVars, chargesVars>>

\* process_tips_data is called
CallProcessTipsData ==
    /\ tw.pc = "start"
    /\ tw.fn = "process_tips_data"
    /\ tw' = [tw EXCEPT
                 !.pc = "once",
                 !.first = ProcessTipsData(tw.orders_data, tw.args.location_index,
                                           tw.args.date_range, tw.args.jobs,
                                           tw.args.time_entries)]
    /\ UNCHANGED <<mainVars, serverVars, chargesVars>>

\* process_tips_data is called again with the same arguments and the same
\* answers of the API
CallProcessTipsDataAgain ==
    /\ tw.pc = "once"
    /\ tw.fn = "process_tips_data"
    /\ tw' = [tw EXCEPT
                 !.pc = "twice",
                 !.second = ProcessTipsData(tw.orders_data, tw.args.location_index,
                                            tw.args.date_range, tw.args.jobs,
                                            tw.args.time_entries)]
    /\ UNCHANGED <<mainVars, serverVars, chargesVars>>

TwiceNext ==
    \/ CallProcessOrdersData
    \/ CallProcessOrdersDataAgain
    \/ CallProcessTipsData
    \/ CallProcessTipsDataAgain

\* An aggregator called twice over the same batch.
SpecTwice == TwiceInit /\ [][TwiceNext]_vars

-----------------------------------------------------------------------------
(* Claims about an aggregator called twice *)

-----------------------------------------------------------------------------
(* The job servers: server.py runs get_orders.main() in a background thread of
   the server process, simple_server.py runs get_tips.py in a subprocess.  A
   thread may be suspended between any two statements. *)

TaskIds == {1, 2}

\* the validated parameters of a request
TaskParams ==
    [location_index : {1, 2}, start_date : {"2025-05-01", "2025-05-02"}, webhook : BOOLEAN]

\* what a task has not read yet
NotRead == "not read"

NewTask(kind, params) ==
    [kind |-> kind, params |-> params, pc |-> "start",
     used |-> [dates |-> NotRead, webhook |-> NotRead, location_index |-> NoIndex,
               config |-> NoIndex]]

\* args.dates of parse_args(): the value after the last --dates of sys.argv,
\* None when there is none
ParsedDates(argv) ==
    LET at == {i \in DOMAIN argv : argv[i] = "--dates"}
    IN  IF at = {} THEN "None"
        ELSE argv[(CHOOSE i \in at : \A j \in at : j <= i) + 1]

\* str(b) of a truth value
StrOfBool(b) == IF b THEN "True" ELSE "False"

\* args.webhook of parse_args()
ParsedWebhook(argv) == \E i \in DOMAIN argv : argv[i] = "--webhook"

ServerInit ==
    /\ TipsIdle
    /\ RosterIdle
    /\ RunIdle
    /\ OrdersIdle
    /\ TwiceIdle
    /\ ChargesIdle
    /\ ClientIdle
    /\ JobsIdle
    /\ \E k1, k2 \in {"process_orders", "run_get_tips_script"}, p1, p2 \in TaskParams :
          /\ p1.location_index # p2.location_index \/ p1.start_date # p2.start_date
          /\ tasks = (1 :> NewTask(k1, p1)) @@ (2 :> NewTask(k2, p2))
    /\ os_environ = "4"
    /\ sys_argv = <<"server.py">>

\* process_orders: os.environ['TOAST_LOCATION_INDEX'] = str(params['location_index'])
SetEnviron ==
    \E i \in TaskIds :
        /\ tasks[i].kind = "process_orders"
        /\ tasks[i].pc = "start"
        /\ os_environ' = StrOf(tasks[i].params.location_index)
        /\ tasks' = [tasks EXCEPT ![i].pc = "argv"]
        /\ UNCHANGED <<sys_argv, mainVars, twiceVars, chargesVars>>

\* process_orders: sys.argv = ['get_orders.py']
AssignArgv ==
    \E i \in TaskIds :
        /\ tasks[i].pc = "argv"
        /\ sys_argv' = <<"get_orders.py">>
        /\ tasks' = [tasks EXCEPT ![i].pc = "dates"]
        /\ UNCHANGED <<os_environ, mainVars, twiceVars, chargesVars>>

\* process_orders: sys.argv.extend(['--dates', start_date, end_date])
ExtendDates ==
    \E i \in TaskIds :
        /\ tasks[i].pc = "dates"
        /\ sys_argv' = sys_argv \o <<"--dates", tasks[i].params.start_date>>
        /\ tasks' = [tasks EXCEPT ![i].pc = "webhook"]
        /\ UNCHANGED <<os_environ, mainVars, twiceVars, chargesVars>>

\* process_orders: if params['webhook']: sys.argv.append('--webhook')
AppendWebhook ==
    \E i \in TaskIds :
        /\ tasks[i].pc = "webhook"
        /\ sys_argv' = IF tasks[i].params.webhook THEN Append(sys_argv, "--webhook")
                        ELSE sys_argv
        /\ tasks' = [tasks EXCEPT ![i].pc = "main"]
        /\ UNCHANGED <<os_environ, mainVars, twiceVars, chargesVars>>

\* get_orders.main: args = parse_args()
ParseArgs ==
    \E i \in TaskIds :
        /\ tasks[i].pc = "main"
        /\ tasks' = [tasks EXCEPT ![i].pc = "environ",
                                   ![i].used.dates = ParsedDates(sys_argv),
                                   ![i].used.webhook = StrOfBool(ParsedWebhook(sys_argv))]
        /\ UNCHANGED <<os_environ, sys_argv, mainVars, twiceVars, chargesVars>>

\* get_orders.main: location_index = int(os.environ['TOAST_LOCATION_INDEX'])
ReadEnviron ==
    \E i \in TaskIds :
        /\ tasks[i].pc = "environ"
        /\ tasks' = [tasks EXCEPT ![i].pc = "set_environ",
                                   ![i].used.location_index = IntOf(os_environ)]
        /\ UNCHANGED <<os_environ, sys_argv, mainVars, twiceVars, chargesVars>>

\* get_orders.main: os.environ['TOAST_LOCATION_INDEX'] = str(location_index)
MainSetEnviron ==
    \E i \in TaskIds :
        /\ tasks[i].pc = "set_environ"
        /\ os_environ' = StrOf(tasks[i].used.location_index)
        /\ tasks' = [tasks EXCEPT ![i].pc = "client"]
        /\ UNCHANGED <<sys_argv, mainVars, twiceVars, chargesVars>>

\* get_orders.main: ToastAPIClient(), whose import of config reads the
\* environment for the restaurant to query
ClientConfig ==
    \E i \in TaskIds :
        /\ tasks[i].pc = "client"
        /\ tasks' = [tasks EXCEPT ![i].pc = "done",
                                   ![i].used.config = IntOf(os_environ)]
        /\ UNCHANGED <<os_environ, sys_argv, mainVars, twiceVars, chargesVars>>

\* run_get_tips_script: a copy of the environment and a command line of its
\* own, handed to a subprocess
RunGetTipsScript ==
    \E i \in TaskIds :
        /\ tasks[i].kind = "run_get_tips_script"
        /\ tasks[i].pc = "start"
        /\ tasks' = [tasks EXCEPT
                        ![i].pc = "done",
                        ![i].used = [dates |-> tasks[i].params.start_date,
                                     webhook |-> StrOfBool(tasks[i].params.webhook),
                                     location_index |-> tasks[i].params.location_index,
                                     config |-> tasks[i].params.location_index]]
        /\ UNCHANGED <<os_environ, sys_argv, mainVars, twiceVars, chargesVars>>

ServerNext ==
    \/ SetEnviron
    \/ AssignArgv
    \/ ExtendDates
    \/ AppendWebhook
    \/ ParseArgs
    \/ ReadEnviron
    \/ MainSetEnviron
    \/ ClientConfig
    \/ RunGetTipsScript

\* Two tasks of a job server, started for different requests.
SpecServer == ServerInit /\ [][ServerNext]_vars

-----------------------------------------------------------------------------
(* Claims about the job servers *)

\* C12: whatever a task reads for its run (dates, webhook setting, location
\* index, restaurant of the client) is what its own request gave, under every
\* interleaving of two tasks.
C12_TasksUseOwnParameters ==
    \A i \in TaskIds :
        /\ tasks[i].used.dates \in {NotRead, tasks[i].params.start_date}
        /\ tasks[i].used.webhook \in {NotRead, StrOfBool(tasks[i].params.webhook)}
        /\ tasks[i].used.location_index \in {NoIndex, tasks[i].params.location_index}
        /\ tasks[i].used.config \in {NoIndex, tasks[i].params.location_index}

-----------------------------------------------------------------------------
(* process_service_charges.py: calculate_item_percentages and
   attribute_service_charges over one order. Amounts are in cents. The
   percentage of an item is kept as the quotient subtotal / total_subtotal it
   was computed from. *)

Item(entityType, subtotal) ==
    [entityType |-> entityType, subtotal |-> subtotal, total |-> subtotal,
     has_percentage_of_total |-> FALSE, part |-> 0, whole |-> 1]

\* The items of the model: line items without and with a subtotal, and an
\* item of another entity type.
ItemKinds ==
    {Item("LineItem", 0), Item("LineItem", 1000), Item("LineItem", 3000),
     Item("Discount", 1000)}

ItemLists == UNION {[1..n -> ItemKinds] : n \in 0..MaxItems}

\* The appliedServiceCharges of the model, by their amount.
ChargeLists == {<<>>, <<100>>, <<100, 33>>}

IsLineItem(item) == item.entityType = "LineItem"

\* total_subtotal: the subtotals of the LineItems
TotalSubtotal(items) ==
    SumSeq([i \in DOMAIN items |-> IF IsLineItem(items[i]) THEN items[i].subtotal ELSE 0])

\* calculate_item_percentages(items)
CalculateItemPercentages(items) ==
    LET total_subtotal == TotalSubtotal(items)
    IN  IF total_subtotal = 0 THEN items
        ELSE [i \in DOMAIN items |->
                 IF IsLineItem(items[i])
                 THEN [items[i] EXCEPT !.has_percentage_of_total = TRUE,
                                       !.part = items[i].subtotal,
                                       !.whole = total_subtotal]
                 ELSE items[i]]

\* item['percentage_of_total'] raises KeyError for some LineItem
PercentageMissing(items) ==
    \E i \in DOMAIN items : IsLineItem(items[i]) /\ ~items[i].has_percentage_of_total

\* attributed_amount: charge_amount * percentage / 100, rounded down to a cent
AttributedAmount(charge_amount, item) == (charge_amount * item.part) \div item.whole

\* the body of the loop over the service charges, when nothing raises
SpreadCharge(items, charge_amount) ==
    LET line == {i \in DOMAIN items : IsLineItem(items[i])}
        attributed == [i \in DOMAIN items |->
                          IF i \in line THEN AttributedAmount(charge_amount, items[i]) ELSE 0]
        remaining_amount == charge_amount - SumSeq(attributed)
        last == CHOOSE i \in line : \A j \in line : j <= i
    IN  [i \in DOMAIN items |->
            IF i \notin line THEN items[i]
            ELSE [items[i] EXCEPT
                    !.total = @ + attributed[i]
                                + (IF remaining_amount > 0 /\ i = last
                                   THEN remaining_amount ELSE 0)]]

ChargesInit ==
    /\ TipsIdle
    /\ RosterIdle
    /\ RunIdle
    /\ OrdersIdle
    /\ TwiceIdle
    /\ ServerIdle
    /\ ClientIdle
    /\ JobsIdle
    /\ asc \in {[pc |-> "start", order_items |-> its, items |-> its,
                 service_charges |-> cs, charged |-> 0] :
                    its \in ItemLists, cs \in ChargeLists}

\* if not service_charges: return processed_order
ReturnUncharged ==
    /\ asc.pc = "start"
    /\ asc.service_charges = <<>>
    /\ asc' = [asc EXCEPT !.pc = "returned"]
    /\ UNCHANGED <<mainVars, twiceVars, serverVars>>

\* items_with_percentages = calculate_item_percentages(items)
CallCalculateItemPercentages ==
    /\ asc.pc = "start"
    /\ asc.service_charges # <<>>
    /\ asc' = [asc EXCEPT !.pc = "charges", !.items = CalculateItemPercentages(@)]
    /\ UNCHANGED <<mainVars, twiceVars, serverVars>>

\* for service_charge in service_charges
AttributeServiceCharge ==
    /\ asc.pc = "charges"
    /\ asc.charged < Len(asc.service_charges)
    /\ asc' = IF PercentageMissing(asc.items)
              THEN [asc EXCEPT !.pc = "raised"]
              ELSE [asc EXCEPT
                      !.items = SpreadCharge(@, asc.service_charges[asc.charged + 1]),
                      !.charged = @ + 1]
    /\ UNCHANGED <<mainVars, twiceVars, serverVars>>

\* processed_order['items'] = items_with_percentages; return processed_order
ReturnProcessedOrder ==
    /\ asc.pc = "charges"
    /\ asc.charged = Len(asc.service_charges)
    /\ asc' = [asc EXCEPT !.pc = "returned"]
    /\ UNCHANGED <<mainVars, twiceVars, serverVars>>

ChargesNext ==
    \/ ReturnUncharged
    \/ CallCalculateItemPercentages
    \/ AttributeServiceCharge
    \/ ReturnProcessedOrder

\* One call of attribute_service_charges.
SpecCharges == ChargesInit /\ [][ChargesNext]_vars

-----------------------------------------------------------------------------
(* Claims about the attribution of service charges *)

\* C20: when the subtotal of the items a charge is spread over is zero, no
\* share of a service charge is attributed to an item and the processing ends
\* without raising.
C20_ZeroSubtotalNeverFails ==
    TotalSubtotal(asc.order_items) = 0 =>
        /\ asc.pc # "raised"
        /\ \A i \in DOMAIN asc.items : asc.items[i].total = asc.order_items[i].total

\* C20 in process_orders_data: the service charges of a check whose counted
\* selections have a subtotal of zero are attributed to no category.
C20_PerCheck ==
    SumOver(orders_acc.category_service_charges, category_init(orders_location_index))
        + orders_hist.zero_subtotal_charges
        <= orders_acc.total_non_grat_service_charges

-----------------------------------------------------------------------------
(* ToastAPIClient over time (server/toast_client.py): _refresh_token,
   _ensure_valid_token and the attempts of _make_request. The clock counts
   seconds. The history of a call tells whether self.token was fetched for the
   attempt at hand, whether an attempt of the call was answered 401, and
   whether the token was fetched after the last such answer. *)

\* expiresIn of a token response: absent, shorter than the buffer of an hour,
\* little longer than it, a day
ExpiresIns == {0, 3000, 4000, 86400}

\* the pauses between two calls of _make_request
Pauses == {0, 90000}

\* self.token_expiry after a token response
TokenExpiry(now, expires_in) ==
    IF expires_in # 0 THEN now + (expires_in - 3600) ELSE now + 23 * 60 * 60

\* the test of _ensure_valid_token
MustRefresh(self_token, token_expiry, now) ==
    self_token = 0 \/ now + 300 > token_expiry

\* the outcomes of _refresh_token: a token, an HTTPError or ValueError, or a
\* RequestException of another kind after its retries
RefreshOutcomes ==
    {[kind |-> "token", expires_in |-> e] : e \in ExpiresIns}
        \cup {[kind |-> "HTTPError", expires_in |-> 0],
              [kind |-> "RequestException", expires_in |-> 0]}

\* the answers to an attempt: 200, 401, 429 or 5xx or a network failure, another 4xx
Answers == {"200", "401", "retryable", "4xx"}

\* the retry logic at the end of an iteration of _make_request
AfterFailure(c) ==
    IF c.current_retry < MAX_RETRIES THEN [c EXCEPT !.pc = "sleep"]
    ELSE [c EXCEPT !.pc = "raised"]

\* the client after _refresh_token has stored a token
WithNewToken(c, expires_in) ==
    [c EXCEPT !.token = 1,
              !.token_expiry = TokenExpiry(c.now, expires_in),
              !.fetched_since_401 = TRUE]

\* __init__ has fetched the first token; _make_request is called
TokenInit ==
    /\ BaseIdle
    /\ rl = [pc |-> "idle"]
    /\ JobsIdle
    /\ \E e \in ExpiresIns :
          tk = [pc |-> "ensure", now |-> 0, token |-> 1, token_expiry |-> TokenExpiry(0, e),
                fetched_for_attempt |-> FALSE, unauthorized |-> FALSE,
                fetched_since_401 |-> FALSE, proactive |-> FALSE,
                current_retry |-> 0, backoff_seconds |-> 1, calls |-> 1]

\* self._ensure_valid_token() at the start of an attempt
TimedEnsureValidToken ==
    /\ tk.pc = "ensure"
    /\ tk' = IF MustRefresh(tk.token, tk.token_expiry, tk.now)
             THEN [tk EXCEPT !.pc = "refresh", !.fetched_for_attempt = FALSE]
             ELSE [tk EXCEPT !.pc = "send", !.fetched_for_attempt = FALSE]
    /\ UNCHANGED <<baseVars, rl, jobVars>>

\* self._refresh_token() called by _ensure_valid_token
RefreshBeforeAttempt ==
    /\ tk.pc = "refresh"
    /\ \E o \in RefreshOutcomes :
          tk' = CASE o.kind = "token" ->
                       [WithNewToken(tk, o.expires_in) EXCEPT
                           !.pc = "send", !.fetched_for_attempt = TRUE, !.proactive = TRUE]
                  [] o.kind = "HTTPError" -> [tk EXCEPT !.pc = "raised"]
                  [] OTHER -> AfterFailure(tk)
    /\ UNCHANGED <<baseVars, rl, jobVars>>

\* requests.request(...) with the Authorization header of self.token
TimedRequest ==
    /\ tk.pc = "send"
    /\ \E answer \in Answers :
          tk' = CASE answer = "200" -> [tk EXCEPT !.pc = "returned"]
                  [] answer = "401" ->
                       [tk EXCEPT !.pc = "refresh_401", !.unauthorized = TRUE,
                                  !.fetched_since_401 = FALSE]
                  [] answer = "retryable" -> AfterFailure(tk)
                  [] OTHER -> [tk EXCEPT !.pc = "raised"]
    /\ UNCHANGED <<baseVars, rl, jobVars>>

\* self._refresh_token() after a 401
RefreshAfter401 ==
    /\ tk.pc = "refresh_401"
    /\ \E o \in RefreshOutcomes :
          tk' = CASE o.kind = "token" -> AfterFailure(WithNewToken(tk, o.expires_in))
                  [] o.kind = "HTTPError" -> [tk EXCEPT !.pc = "raised"]
                  [] OTHER -> AfterFailure(tk)
    /\ UNCHANGED <<baseVars, rl, jobVars>>

\* time.sleep(backoff_seconds); current_retry += 1; the backoff doubles
TimedBackoff ==
    /\ tk.pc = "sleep"
    /\ tk' = [tk EXCEPT !.pc = "ensure",
                        !.now = @ + tk.backoff_seconds,
                        !.current_retry = @ + 1,
                        !.backoff_seconds = IF 2 * @ < 30 THEN 2 * @ ELSE 30]
    /\ UNCHANGED <<baseVars, rl, jobVars>>

\* the next call of _make_request on the same client, after a pause
NextCall ==
    /\ tk.pc = "returned"
    /\ tk.calls < MaxCalls
    /\ \E pause \in Pauses :
          tk' = [tk EXCEPT !.pc = "ensure", !.now = @ + pause,
                           !.unauthorized = FALSE, !.fetched_since_401 = FALSE,
                           !.current_retry = 0, !.backoff_seconds = 1, !.calls = @ + 1]
    /\ UNCHANGED <<baseVars, rl, jobVars>>

TokenNext ==
    \/ TimedEnsureValidToken
    \/ RefreshBeforeAttempt
    \/ TimedRequest
    \/ RefreshAfter401
    \/ TimedBackoff
    \/ NextCall

\* The calls of _make_request on a constructed client.
SpecToken == TokenInit /\ [][TokenNext]_vars

-----------------------------------------------------------------------------
(* Claims about the token *)

\* C22: no attempt is sent without a token or with a token within 300 seconds
\* of its recorded expiry, and after a 401 the next attempt of the request is
\* sent with a token fetched after that 401.
C22_AttemptsUseFreshToken ==
    tk.pc = "send" =>
        /\ tk.token # 0
        /\ tk.now + 300 <= tk.token_expiry
        /\ tk.unauthorized => tk.fetched_since_401

\* C22, first half alone, for a token whose recorded expiry was far when it was
\* fetched: an attempt is sent with a token that is not within 300 seconds of
\* its recorded expiry, or with the token fetched for this attempt.
C22_ExpiringTokenReplaced ==
    tk.pc = "send" =>
        /\ tk.token # 0
        /\ tk.now + 300 <= tk.token_expiry \/ tk.fetched_for_attempt

\* C22, second half alone: after a 401 the next attempt is sent with a token
\* fetched after it.
C22_TokenFetchedAfter401 ==
    (tk.pc = "send" /\ tk.unauthorized) => tk.fetched_since_401

-----------------------------------------------------------------------------
(* The throttle of ToastAPIClient.get_orders (server/toast_client.py). The
   clock counts half seconds, so that time.sleep(0.5) is one tick,
   rate_limit_window is 120 ticks and the buffer of a second is 2. *)

rate_limit_threshold == 10
rate_limit_window == 120

\* how long a page request takes: no time to speak of, or a minute (slow
\* answers and the backoffs of _make_request)
RequestDurations == {0, 120}

\* the times of the latest page requests, at most rate_limit_threshold + 1 of them
Latest(times, now) ==
    LET all == Append(times, now)
    IN  IF Len(all) > rate_limit_threshold + 1 THEN Tail(all) ELSE all

\* get_orders is called: requests_count = 0, start_time = time.time()
RateInit ==
    /\ BaseIdle
    /\ tk = [pc |-> "idle"]
    /\ JobsIdle
    /\ rl = [pc |-> "loop", now |-> 0, start_time |-> 0, requests_count |-> 0, page |-> 1,
             slept |-> FALSE, issued |-> <<>>]

\* while more_records: the rate check, with its sleep, and the page request
\* sent by _make_request
PageRequest ==
    /\ rl.pc = "loop"
    /\ rl.page <= MaxThrottledPages
    /\ \E duration \in RequestDurations :
        LET requests_count == rl.requests_count + 1
            elapsed_time == rl.now - rl.start_time
            throttled == requests_count >= rate_limit_threshold
                            /\ elapsed_time < rate_limit_window
            sleep_time == rate_limit_window - elapsed_time + 2
            sent_at == IF throttled THEN rl.now + sleep_time ELSE rl.now
        IN  rl' = [rl EXCEPT
                     !.pc = "answer",
                     !.requests_count = IF throttled THEN 0 ELSE requests_count,
                     !.start_time = IF throttled THEN sent_at ELSE @,
                     !.slept = @ \/ throttled,
                     !.issued = Latest(@, sent_at),
                     !.now = sent_at + duration]
    /\ UNCHANGED <<baseVars, tk, jobVars>>

\* a full page: page += 1; time.sleep(0.5)
FullPage ==
    /\ rl.pc = "answer"
    /\ rl' = [rl EXCEPT !.pc = "loop", !.page = @ + 1, !.now = @ + 1]
    /\ UNCHANGED <<baseVars, tk, jobVars>>

\* a page shorter than page_size: more_records = False
LastPage ==
    /\ rl.pc = "answer"
    /\ rl' = [rl EXCEPT !.pc = "returned"]
    /\ UNCHANGED <<baseVars, tk, jobVars>>

RateNext ==
    \/ PageRequest
    \/ FullPage
    \/ LastPage

\* The pagination loop of one call of get_orders.
SpecRate == RateInit /\ [][RateNext]_vars

-----------------------------------------------------------------------------
(* Claims about the throttle *)

\* C23: get_orders never issues more than rate_limit_threshold page requests
\* within an interval of rate_limit_window: of any rate_limit_threshold + 1
\* requests in a row, the last is issued at least a window after the first.
C23_AtMostThresholdPerWindow ==
    Len(rl.issued) = rate_limit_threshold + 1 =>
        rl.issued[rate_limit_threshold + 1] - rl.issued[1] >= rate_limit_window

\* the throttle at work: the loop has slept and issued a further request
C23_Throttled ==
    /\ rl.slept
    /\ rl.pc = "answer"

-----------------------------------------------------------------------------
(* A task of a job server and the polls of its status: process_orders and
   get_status of server.py, run_get_tips_script and get_task_status of
   server/simple_server.py. The worker thread and the request threads of the
   polling clients take their steps in any order. A poll answers at the read
   that settles its answer. *)

Pollers == {1, 2}

TaskKinds == {"process_orders", "run_get_tips_script"}

\* how the run of a task ends: get_orders.main() returns, an exception reaches
\* process_orders, or main calls sys.exit(1); the subprocess of
\* run_get_tips_script exits with 0 or another code, is timed out, or
\* subprocess.run raises
RunOutcomes(kind) ==
    IF kind = "process_orders" THEN {"returns", "Exception", "SystemExit"}
    ELSE {"returncode 0", "returncode 1", "TimeoutExpired", "Exception"}

\* the worker after the run: the result it is about to store, or the end of
\* the thread by an exception that no handler catches
AfterRun(j, outcome) ==
    CASE outcome \in {"returns", "returncode 0"} -> [j EXCEPT !.worker = "store_completed"]
      [] outcome = "SystemExit" -> [j EXCEPT !.worker = "died"]
      [] OTHER -> [j EXCEPT !.worker = "store_failed"]

\* StoreResult when the result is not kept
StoreResult_Lost(j, status) == [j EXCEPT !.worker = "cleanup"]

\* task_results[task_id] = {'status': ..., ...}
StoreResult(j, status) ==
    [j EXCEPT !.result = status, !.written = @ + 1, !.worker = "cleanup"]

\* a poll has answered
Answered(j, p, answer) ==
    [j EXCEPT
       !.poll[p].pc = "idle",
       !.terminal_answered = @ \/ answer \in {"completed", "failed"},
       !.processing_answered = @ \/ answer = "processing",
       !.not_found_answered = @ \/ answer = "Task not found",
       !.not_found_first = @ \/ (answer = "Task not found" /\ ~j.terminal_answered),
       !.processing_after = @ \/ (answer = "processing" /\ j.poll[p].late)]

\* the endpoint has accepted the task: it is in the table of active tasks and
\* its thread is started
JobsInit ==
    /\ BaseIdle
    /\ ClientIdle
    /\ dl = [pc |-> "idle"]
    /\ \E kind \in TaskKinds :
          js = [kind |-> kind, active |-> TRUE, result |-> "none", written |-> 0,
                aged |-> FALSE, worker |-> "run",
                poll |-> [p \in Pollers |-> [pc |-> "idle", polls |-> 0, late |-> FALSE]],
                terminal_answered |-> FALSE, processing_answered |-> FALSE,
                not_found_answered |-> FALSE, not_found_first |-> FALSE,
                processing_after |-> FALSE]

\* get_orders.main() or subprocess.run(...)
RunTask ==
    /\ js.worker = "run"
    /\ \E outcome \in RunOutcomes(js.kind) : js' = AfterRun(js, outcome)
    /\ UNCHANGED <<baseVars, clientVars, dl>>

\* the result of the run is stored
WorkerStoresResult ==
    /\ js.worker \in {"store_completed", "store_failed"}
    /\ js' = StoreResult(js, IF js.worker = "store_completed" THEN "completed" ELSE "failed")
    /\ UNCHANGED <<baseVars, clientVars, dl>>

\* if task_id in tasks: del tasks[task_id]
WorkerCleansUp ==
    /\ js.worker = "cleanup"
    /\ js' = [js EXCEPT !.active = FALSE, !.worker = "ended"]
    /\ UNCHANGED <<baseVars, clientVars, dl>>

\* five minutes pass after the result was stored
ResultAges ==
    /\ js.result # "none"
    /\ ~js.aged
    /\ js' = [js EXCEPT !.aged = TRUE]
    /\ UNCHANGED <<baseVars, clientVars, dl>>

\* a status request: if task_id in tasks
PollChecksTasks ==
    /\ \E p \in Pollers :
          /\ js.poll[p].pc = "idle"
          /\ js.poll[p].polls < MaxPolls
          /\ js' = [js EXCEPT !.poll[p] = [pc |-> IF js.active THEN "task" ELSE "results",
                                           polls |-> @.polls + 1,
                                           late |-> js.terminal_answered]]
    /\ UNCHANGED <<baseVars, clientVars, dl>>

\* tasks[task_id]['started_at']: 'processing', or a KeyError and the answer 500
PollReadsTask ==
    /\ \E p \in Pollers :
          /\ js.poll[p].pc = "task"
          /\ js' = Answered(js, p, IF js.active THEN "processing" ELSE "500")
    /\ UNCHANGED <<baseVars, clientVars, dl>>

\* if task_id in task_results, else 'Task not found'
PollChecksResults ==
    /\ \E p \in Pollers :
          /\ js.poll[p].pc = "results"
          /\ js' = IF js.result # "none" THEN [js EXCEPT !.poll[p].pc = "result"]
                   ELSE Answered(js, p, "Task not found")
    /\ UNCHANGED <<baseVars, clientVars, dl>>

\* result = task_results[task_id]; get_status deletes a result with
\* 'completed_at' that is older than five minutes; the result is the answer
PollReadsResult ==
    /\ \E p \in Pollers :
          /\ js.poll[p].pc = "result"
          /\ js' = IF js.result = "none" THEN Answered(js, p, "500")
                   ELSE IF js.kind = "process_orders" /\ js.result = "completed" /\ js.aged
                   THEN [Answered(js, p, js.result) EXCEPT !.result = "none"]
                   ELSE Answered(js, p, js.result)
    /\ UNCHANGED <<baseVars, clientVars, dl>>

WorkerNext ==
    \/ RunTask
    \/ WorkerStoresResult
    \/ WorkerCleansUp

JobsNext ==
    \/ WorkerNext
    \/ ResultAges
    \/ PollChecksTasks
    \/ PollReadsTask
    \/ PollChecksResults
    \/ PollReadsResult

\* One accepted task, its worker thread and two polling clients.
SpecJobs == JobsInit /\ [][JobsNext]_vars

\* The same, where a worker thread that can take a step is scheduled.
SpecJobsFair == SpecJobs /\ WF_vars(WorkerNext)

-----------------------------------------------------------------------------
(* Claims about the tasks of the job servers *)

\* C24: every accepted task eventually leaves 'processing': one terminal
\* result has been recorded for it and it is no longer in the table of active
\* tasks.
C24_TaskLeavesProcessing == <>(~js.active /\ js.written = 1)

\* C24 for the tasks whose worker thread has come to its end: one result was
\* recorded and the task is out of the table.
C24_EndedTaskHasResult == js.worker = "ended" => (~js.active /\ js.written = 1)

\* C25: no poll answers 'Task not found' before a poll has answered with the
\* terminal result, and a poll that begins after a terminal answer does not
\* answer 'processing'.
C25_PollsSeeTaskInOrder == ~js.not_found_first /\ ~js.processing_after

\* a poll has answered 'processing', a later one the terminal result, a poll
\* has answered 'Task not found', and a client's last poll began after the
\* terminal answer
C25_Witness ==
    /\ js.processing_answered
    /\ js.terminal_answered
    /\ js.not_found_answered
    /\ \E p \in Pollers : js.poll[p].late /\ js.poll[p].polls = MaxPolls

-----------------------------------------------------------------------------
(* The end of a run of a script, from the output file on: main of
   functions/get_tips/get_tips.py and of functions/get_orders/get_orders.py
   with send_data_to_webhook, and the result that run_get_tips_script and its
   like record for the exit code of the subprocess. *)

Scripts == {"get_tips", "get_orders"}

\* send_data_to_webhook when a failed POST leaves it as an exception
SendDataToWebhook_Raises(post) ==
    [post |-> post, value |-> post = "2xx", escaped |-> post # "2xx", reported |-> FALSE]

\* send_data_to_webhook with a POST that ends as post: requests.post raises on
\* a timeout or a connection error, raise_for_status on a status that is not
\* 2xx; except Exception logs and returns False, and no report is sent
SendDataToWebhook(post) ==
    LET raised == post \in {"timeout", "conn"} \/ post = "non2xx"
        caught == raised
    IN  [post |-> post, value |-> ~raised, escaped |-> raised /\ ~caught, reported |-> FALSE]

\* the result recorded for the exit code of the subprocess
StatusOfReturncode(returncode) == IF returncode = 0 THEN "completed" ELSE "failed"

\* main after a call of send_data_to_webhook
AfterSend(d, sent, next) ==
    [d EXCEPT !.sends = Append(@, sent),
              !.reports = IF sent.reported THEN @ + 1 ELSE @,
              !.pc = IF sent.escaped THEN "except" ELSE next]

\* main has the processed data; --webhook and --response-webhook-url as given
DeliverInit ==
    /\ BaseIdle
    /\ ClientIdle
    /\ js = [pc |-> "idle"]
    /\ \E script \in Scripts, webhook \in BOOLEAN, response_webhook_url \in BOOLEAN :
          /\ script = "get_orders" => ~response_webhook_url
          /\ dl = [pc |-> "output", script |-> script, webhook |-> webhook,
                   response_webhook_url |-> response_webhook_url,
                   sends |-> <<>>, reports |-> 0, returncode |-> NoIndex,
                   status |-> "none"]

\* main: the output file; a failure to write it is reported and raised again
WriteOutput ==
    /\ dl.pc = "output"
    /\ \E write \in {"none", "ok", "fails"} :
          dl' = IF write = "fails"
                THEN [dl EXCEPT !.reports = @ + 1, !.pc = "except"]
                ELSE [dl EXCEPT !.pc = "webhook"]
    /\ UNCHANGED <<baseVars, clientVars, js>>

\* main: if args.webhook: send_data_to_webhook(processed_data ...)
SendToWebhook ==
    /\ dl.pc = "webhook"
    /\ LET next == IF dl.script = "get_tips" THEN "response_webhook" ELSE "returns"
       IN  IF dl.webhook
           THEN \E post \in PostOutcomes : dl' = AfterSend(dl, SendDataToWebhook(post), next)
           ELSE dl' = [dl EXCEPT !.pc = next]
    /\ UNCHANGED <<baseVars, clientVars, js>>

\* main of get_tips: if args.response_webhook_url: send_data_to_webhook(...)
SendToResponseWebhook ==
    /\ dl.pc = "response_webhook"
    /\ IF dl.response_webhook_url
       THEN \E post \in PostOutcomes : dl' = AfterSend(dl, SendDataToWebhook(post), "returns")
       ELSE dl' = [dl EXCEPT !.pc = "returns"]
    /\ UNCHANGED <<baseVars, clientVars, js>>

\* main comes to its end and the script exits with 0
MainReturns ==
    /\ dl.pc = "returns"
    /\ dl' = [dl EXCEPT !.returncode = 0, !.pc = "exited"]
    /\ UNCHANGED <<baseVars, clientVars, js>>

\* main: except Exception - the error is reported and the script exits with 1
MainExits1 ==
    /\ dl.pc = "except"
    /\ dl' = [dl EXCEPT !.reports = @ + 1, !.returncode = 1, !.pc = "exited"]
    /\ UNCHANGED <<baseVars, clientVars, js>>

\* the job server records the result of the subprocess
RecordResult ==
    /\ dl.pc = "exited"
    /\ dl' = [dl EXCEPT !.status = StatusOfReturncode(dl.returncode), !.pc = "recorded"]
    /\ UNCHANGED <<baseVars, clientVars, js>>

DeliverNext ==
    \/ WriteOutput
    \/ SendToWebhook
    \/ SendToResponseWebhook
    \/ MainReturns
    \/ MainExits1
    \/ RecordResult

\* The end of a run of a script under a job server.
SpecDeliver == DeliverInit /\ [][DeliverNext]_vars

-----------------------------------------------------------------------------
(* Claims about the delivery of the result *)

\* C30: a failed delivery to the data webhook makes send_data_to_webhook
\* return False without raising and sends nothing to the error webhook; the run
\* ends with exit code 0 and the task is recorded as completed.
C30_FailedDeliveryOnlyLogged ==
    LET failed == {i \in DOMAIN dl.sends : dl.sends[i].post # "2xx"}
    IN  /\ \A i \in failed :
              /\ dl.sends[i].value = FALSE
              /\ ~dl.sends[i].escaped
              /\ ~dl.sends[i].reported
        /\ failed # {} =>
              /\ dl.reports = 0
              /\ dl.pc \notin {"except"}
              /\ dl.pc \in {"exited", "recorded"} => dl.returncode = 0
              /\ dl.pc = "recorded" => dl.status = "completed"

\* a run of get_tips whose two deliveries failed, one by a status and one by a
\* timeout, has exited and its task is recorded
C30_Witness ==
    /\ dl.pc = "recorded"
    /\ dl.script = "get_tips"
    /\ Len(dl.sends) = 2
    /\ dl.sends[1].post = "non2xx"
    /\ dl.sends[2].post = "timeout"
    /\ dl.status = "completed"

=============================================================================
